---- MODULE Spec2Model ----
(***************************************************************************)
(* A model of the CDCL solver of rhartert/yass (package internal/sat).     *)
(*                                                                         *)
(* The solver object is the record built by Cur: one field per field of   *)
(* the Go struct Solver that influences behaviour.  Every Go slice is a    *)
(* sequence; Go index i is sequence index i + 1.  A literal l indexes the  *)
(* per-literal arrays at l + 1, a variable v the per-variable arrays at     *)
(* v + 1.  Clause objects live in the sequence clauses; a *Clause is the    *)
(* index of the object in that sequence and 0 is the nil pointer.          *)
(***************************************************************************)
EXTENDS Integers, Sequences, FiniteSets, TLC

\* ------------------------------------------------------------------ bounds

\* Largest number of AddVariable calls.
MaxVars == 3
\* Largest number of AddClause calls made by the client with pool clauses.
MaxClauses == 4
\* Largest number of Solve calls of one run.
MaxSolves == 2

\* ------------------------------------------------------- lifted booleans

Unknown == 0
True == 1
False == -1

\* LBool.Opposite
LOpposite(b) == 0 - b

\* Lift
Lift(b) == IF b THEN True ELSE False

\* --------------------------------------------------------------- literals

PositiveLiteral(v) == v * 2
NegativeLiteral(v) == v * 2 + 1
VarID(l) == l \div 2
IsPositive(l) == l % 2 = 0
\* l ^ 1
Opposite(l) == IF l % 2 = 0 THEN l + 1 ELSE l - 1

\* ---------------------------------------------------------- seq helpers

\* Go's s[i] for a slice s held as a sequence.
At(seq, i) == seq[i + 1]
\* Go's s[i], s[j] = s[j], s[i]
Swap(seq, i, j) == [seq EXCEPT ![i + 1] = seq[j + 1], ![j + 1] = seq[i + 1]]
\* Go's s[:n]
Prefix(seq, n) == SubSeq(seq, 1, n)
Max(a, b) == IF a > b THEN a ELSE b
Range(seq) == {seq[i] : i \in 1..Len(seq)}

\* nil *Clause
NoClause == 0

\* ---------------------------------------------------- solver accessors

NumVariables(s) == Len(s.assigns) \div 2
NumAssigns(s) == Len(s.trail)
LitValue(s, l) == s.assigns[l + 1]
VarValue(s, x) == s.assigns[PositiveLiteral(x) + 1]
decisionLevel(s) == Len(s.trailLim)
Crash(s, why) == [s EXCEPT !.crashed = why]
Ok(s) == s.crashed = "no"

\* Clause status flags.
isProtected(s, c) == s.clauses[c].protected
isLearnt(s, c) == s.clauses[c].learnt
setProtected(s, c) == [s EXCEPT !.clauses[c].protected = TRUE]
setUnprotected(s, c) == [s EXCEPT !.clauses[c].protected = FALSE]

\* Solver.Watch
Watch(s, c, watch, guard) ==
  [s EXCEPT !.watchers[watch + 1] = Append(@, [clause |-> c, guard |-> guard])]

\* Solver.Unwatch
Unwatch(s, c, watch) ==
  [s EXCEPT !.watchers[watch + 1] = SelectSeq(@, LAMBDA w : w.clause # c)]

\* A faulty enqueue that stores the new fact for l alone and leaves the
\* opposite literal untouched.
enqueueOneSided(s, l, from) ==
  CASE LitValue(s, l) = False -> [s |-> s, ok |-> FALSE]
    [] LitValue(s, l) = True -> [s |-> s, ok |-> TRUE]
    [] OTHER ->
       [s |-> [s EXCEPT !.assigns[l + 1] = True,
                        !.assignLevels[VarID(l) + 1] = decisionLevel(s),
                        !.assignReasons[VarID(l) + 1] = from,
                        !.trail = Append(@, l),
                        !.propQueue = Append(@, l)],
        ok |-> TRUE]

\* Solver.enqueue: the solver after the call and the boolean returned.
enqueue(s, l, from) ==
  CASE LitValue(s, l) = False -> [s |-> s, ok |-> FALSE]
    [] LitValue(s, l) = True -> [s |-> s, ok |-> TRUE]
    [] OTHER ->
       [s |-> [s EXCEPT !.assigns[l + 1] = True,
                        !.assigns[Opposite(l) + 1] = False,
                        !.assignLevels[VarID(l) + 1] = decisionLevel(s),
                        !.assignReasons[VarID(l) + 1] = from,
                        !.trail = Append(@, l),
                        !.propQueue = Append(@, l)],
        ok |-> TRUE]

\* ---------------------------------------------------------------- clauses

\* The backward scan of NewClause over a problem clause (learnt = false):
\* lits is tmpLiterals, size the running size, seen the map, i the loop index.
\* kind "sat" is the return (nil, true) from inside the loop, "panic" an
\* index out of range (size has dropped below 0), "done" the end of the loop.
RECURSIVE scanLiterals(_, _, _, _, _)
scanLiterals(s, lits, size, seen, i) ==
  IF i < 0 THEN [kind |-> "done", lits |-> lits, size |-> size]
  ELSE IF Opposite(At(lits, i)) \in seen
    THEN [kind |-> "sat", lits |-> lits, size |-> size]
  ELSE
    LET dup == At(lits, i) \in seen
        size1 == IF dup THEN size - 1 ELSE size
    IN IF size1 < 0 THEN [kind |-> "panic", lits |-> lits, size |-> size1]
       ELSE
         LET lits1 == IF dup THEN Swap(lits, i, size1) ELSE lits
             seen1 == seen \cup {At(lits1, i)}
             v == LitValue(s, At(lits1, i))
         IN CASE v = True -> [kind |-> "sat", lits |-> lits1, size |-> size1]
              [] v = False ->
                 IF size1 - 1 < 0
                   THEN [kind |-> "panic", lits |-> lits1, size |-> size1 - 1]
                   ELSE scanLiterals(s, Swap(lits1, i, size1 - 1), size1 - 1, seen1, i - 1)
              [] OTHER -> scanLiterals(s, lits1, size1, seen1, i - 1)

\* A faulty choice of the second watch of a learnt clause: position 1 as it
\* comes, whatever the levels.
secondWatchFirst(s, lits) == 1

\* The loop of NewClause that picks the second watch of a learnt clause: the
\* first position i >= 1 whose literal has the highest assignment level
\* (-1 when no level is above -1).
secondWatch(s, lits) ==
  LET lv(i) == s.assignLevels[VarID(At(lits, i)) + 1]
      idx == 1..(Len(lits) - 1)
      maxLevel == CHOOSE m \in {lv(i) : i \in idx} : \A i \in idx : lv(i) <= m
  IN IF maxLevel <= -1 THEN -1
     ELSE CHOOSE i \in idx : lv(i) = maxLevel /\ \A k \in idx : lv(k) = maxLevel => i <= k

\* The default branch of NewClause's switch: allocate the clause and watch it.
createClause(s, lits, learnt) ==
  LET wl == IF learnt THEN secondWatch(s, lits) ELSE 1 IN
  IF wl < 0 THEN [s |-> Crash(s, "NewClause: wl = -1"), c |-> NoClause, ok |-> FALSE]
  ELSE
    LET literals == IF learnt THEN Swap(lits, wl, 1) ELSE lits
        c == Len(s.clauses) + 1
        obj == [literals |-> literals, learnt |-> learnt, deleted |-> FALSE,
                protected |-> FALSE, lbd |-> 0, activity |-> 0]
        s1 == [s EXCEPT !.clauses = Append(@, obj)]
        s2 == Watch(s1, c, Opposite(At(literals, 0)), At(literals, 1))
        s3 == Watch(s2, c, Opposite(At(literals, 1)), At(literals, 0))
    IN [s |-> s3, c |-> c, ok |-> TRUE]

\* NewClause: the solver after the call, the clause returned (NoClause for nil)
\* and the boolean returned.
NewClause(s, tmpLiterals, learnt) ==
  LET sc == IF learnt
              THEN [kind |-> "done", lits |-> tmpLiterals, size |-> Len(tmpLiterals)]
              ELSE scanLiterals(s, tmpLiterals, Len(tmpLiterals), {}, Len(tmpLiterals) - 1)
  IN CASE sc.kind = "panic" ->
            [s |-> Crash(s, "NewClause: index out of range"), c |-> NoClause, ok |-> FALSE]
       [] sc.kind = "sat" -> [s |-> s, c |-> NoClause, ok |-> TRUE]
       [] OTHER ->
          LET lits == Prefix(sc.lits, sc.size) IN
          CASE sc.size = 0 -> [s |-> s, c |-> NoClause, ok |-> FALSE]
            [] sc.size = 1 ->
               LET e == enqueue(s, At(lits, 0), NoClause)
               IN [s |-> e.s, c |-> NoClause, ok |-> e.ok]
            [] OTHER -> createClause(s, lits, learnt)

\* Clause.locked
locked(s, c) == s.assignReasons[VarID(At(s.clauses[c].literals, 0)) + 1] = c

\* Clause.Delete
Delete(s, c) ==
  LET lits == s.clauses[c].literals
      s1 == [s EXCEPT !.clauses[c].deleted = TRUE]
  IN IF Len(lits) < 2 THEN Crash(s1, "Clause.Delete: index out of range")
     ELSE [Unwatch(Unwatch(s1, c, Opposite(At(lits, 0))), c, Opposite(At(lits, 1)))
             EXCEPT !.clauses[c].literals = <<>>]

\* A faulty loop of Clause.Simplify that keeps the False literals with the
\* Unknown ones.
RECURSIVE simplifyScanKeepFalse(_, _, _, _)
simplifyScanKeepFalse(s, lits, i, j) ==
  IF i >= Len(lits) THEN [lits |-> Prefix(lits, j), sat |-> FALSE]
  ELSE IF LitValue(s, At(lits, i)) = True THEN [lits |-> lits, sat |-> TRUE]
  ELSE simplifyScanKeepFalse(s, [lits EXCEPT ![j + 1] = At(lits, i)], i + 1, j + 1)

\* The loop of Clause.Simplify: literals are compacted in place while the
\* scan runs; a True literal ends the scan with the slice not yet truncated.
RECURSIVE simplifyScan(_, _, _, _)
simplifyScan(s, lits, i, j) ==
  IF i >= Len(lits) THEN [lits |-> Prefix(lits, j), sat |-> FALSE]
  ELSE LET v == LitValue(s, At(lits, i)) IN
       CASE v = True -> [lits |-> lits, sat |-> TRUE]
         [] v = False -> simplifyScan(s, lits, i + 1, j)
         [] OTHER -> simplifyScan(s, [lits EXCEPT ![j + 1] = At(lits, i)], i + 1, j + 1)

\* Clause.Simplify: the solver after the call and the boolean returned.
ClauseSimplify(s, c) ==
  LET r == simplifyScan(s, s.clauses[c].literals, 0, 0)
  IN [s |-> [s EXCEPT !.clauses[c].literals = r.lits], sat |-> r.sat]

\* A faulty scan that takes only a True literal as the new watch and passes
\* over the literals without value.
newWatchTrueOnly(s, lits) ==
  LET cand == {i \in 2..(Len(lits) - 1) : LitValue(s, At(lits, i)) = True}
  IN IF cand = {} THEN -1 ELSE CHOOSE i \in cand : \A k \in cand : i <= k

\* The scan of Clause.Propagate for a new literal to watch: the first position
\* i >= 2 whose literal is not False, or -1.
newWatch(s, lits) ==
  LET cand == {i \in 2..(Len(lits) - 1) : LitValue(s, At(lits, i)) # False}
  IN IF cand = {} THEN -1 ELSE CHOOSE i \in cand : \A k \in cand : i <= k

\* A faulty Clause.Propagate that keeps watching l when no other literal can
\* be watched but does not enqueue literals[0].
ClausePropagateNoUnit(s, c, l) ==
  LET opp == Opposite(l)
      lits0 == s.clauses[c].literals
      lits == IF At(lits0, 0) = opp
                THEN [lits0 EXCEPT ![1] = At(lits0, 1), ![2] = opp]
                ELSE lits0
      s1 == [s EXCEPT !.clauses[c].literals = lits]
      i == newWatch(s1, lits)
  IN CASE LitValue(s1, At(lits, 0)) = True ->
            [s |-> Watch(s1, c, l, At(lits, 0)), ok |-> TRUE]
       [] LitValue(s1, At(lits, 0)) # True /\ i >= 0 ->
            LET lits2 == [lits EXCEPT ![2] = At(lits, i), ![i + 1] = Opposite(l)]
                s2 == [s1 EXCEPT !.clauses[c].literals = lits2]
            IN [s |-> Watch(s2, c, Opposite(At(lits2, 1)), At(lits2, 0)), ok |-> TRUE]
       [] OTHER ->
            [s |-> Watch(s1, c, l, At(lits, 0)),
             ok |-> LitValue(s1, At(lits, 0)) # False]

\* A faulty Clause.Propagate that files the entry of a moved watch with the
\* literal l being propagated as its guard.
ClausePropagateGuardsTrigger(s, c, l) ==
  LET opp == Opposite(l)
      lits0 == s.clauses[c].literals
  IN IF Len(lits0) = 0 \/ (Len(lits0) = 1 /\ At(lits0, 0) = opp)
       THEN [s |-> Crash(s, "Clause.Propagate: index out of range"), ok |-> TRUE]
     ELSE
       LET lits == IF At(lits0, 0) = opp
                     THEN [lits0 EXCEPT ![1] = At(lits0, 1), ![2] = opp]
                     ELSE lits0
           s1 == [s EXCEPT !.clauses[c].literals = lits]
           i == newWatch(s1, lits)
       IN CASE LitValue(s1, At(lits, 0)) = True ->
                 [s |-> Watch(s1, c, l, At(lits, 0)), ok |-> TRUE]
            [] LitValue(s1, At(lits, 0)) # True /\ i >= 0 ->
                 LET lits2 == [lits EXCEPT ![2] = At(lits, i), ![i + 1] = Opposite(l)]
                     s2 == [s1 EXCEPT !.clauses[c].literals = lits2]
                 IN [s |-> Watch(s2, c, Opposite(At(lits2, 1)), l), ok |-> TRUE]
            [] OTHER ->
                 enqueue(Watch(s1, c, l, At(lits, 0)), At(lits, 0), c)

\* Clause.Propagate: the solver after the call and the boolean returned
\* (false: the clause is conflicting).
ClausePropagate(s, c, l) ==
  LET opp == Opposite(l)
      lits0 == s.clauses[c].literals
  IN IF Len(lits0) = 0 \/ (Len(lits0) = 1 /\ At(lits0, 0) = opp)
       THEN [s |-> Crash(s, "Clause.Propagate: index out of range"), ok |-> TRUE]
     ELSE
       LET lits == IF At(lits0, 0) = opp
                     THEN [lits0 EXCEPT ![1] = At(lits0, 1), ![2] = opp]
                     ELSE lits0
           s1 == [s EXCEPT !.clauses[c].literals = lits]
           i == newWatch(s1, lits)
       IN CASE LitValue(s1, At(lits, 0)) = True ->
                 [s |-> Watch(s1, c, l, At(lits, 0)), ok |-> TRUE]
            [] LitValue(s1, At(lits, 0)) # True /\ i >= 0 ->
                 LET lits2 == [lits EXCEPT ![2] = At(lits, i), ![i + 1] = Opposite(l)]
                     s2 == [s1 EXCEPT !.clauses[c].literals = lits2]
                 IN [s |-> Watch(s2, c, Opposite(At(lits2, 1)), At(lits2, 0)), ok |-> TRUE]
            [] OTHER ->
                 enqueue(Watch(s1, c, l, At(lits, 0)), At(lits, 0), c)

\* Clause.explainConflict
explainConflict(s, c) ==
  [i \in 1..Len(s.clauses[c].literals) |-> Opposite(s.clauses[c].literals[i])]

\* Clause.explainAssign
explainAssign(s, c) ==
  [i \in 1..(Len(s.clauses[c].literals) - 1) |-> Opposite(s.clauses[c].literals[i + 1])]

\* ------------------------------------------------------------ propagation

\* Statistics.Guards++, kept as a log when the solver record carries the
\* field guards: the watcher whose guard was found True, the literals its
\* clause has at that moment and their values.
noteGuard(s, w) ==
  IF "guards" \in DOMAIN s
    THEN [s EXCEPT !.guards =
            Append(@, [clause |-> w.clause, guard |-> w.guard,
                       literals |-> s.clauses[w.clause].literals,
                       values |-> [k \in 1..Len(s.clauses[w.clause].literals) |->
                                     LitValue(s, s.clauses[w.clause].literals[k])]])]
    ELSE s

\* A faulty guard test that also takes an unassigned guard.
guardIsTrueOrUnknown(s, w) == LitValue(s, w.guard) # False

\* The guard test of Solver.Propagate: the watcher's guard is True.
guardIsTrue(s, w) == LitValue(s, w.guard) = True

\* The inner loop of Solver.Propagate over tmpWatchers, the copy of the
\* watcher list of l, from position i on.
RECURSIVE propagateWatchers(_, _, _, _)

\* A faulty end of that loop that, on a conflict, does not copy the
\* remaining watchers back.
afterClausePropagateDropRest(r, l, tmpWatchers, i) ==
  IF ~Ok(r.s) THEN [s |-> r.s, confl |-> NoClause]
  ELSE IF r.ok THEN propagateWatchers(r.s, l, tmpWatchers, i + 1)
  ELSE [s |-> [r.s EXCEPT !.propQueue = <<>>], confl |-> At(tmpWatchers, i).clause,
        l |-> l, rest |-> SubSeq(tmpWatchers, i + 2, Len(tmpWatchers))]

\* The body of that loop once Clause.Propagate has returned r for the
\* watcher at position i: on a conflict the remaining watchers are copied
\* back and the queue is cleared.  With the conflicting clause the outcome
\* names the literal l that was being processed and tmpWatchers[i+1:], the
\* watchers not yet visited.
afterClausePropagate(r, l, tmpWatchers, i) ==
  IF ~Ok(r.s) THEN [s |-> r.s, confl |-> NoClause]
  ELSE IF r.ok THEN propagateWatchers(r.s, l, tmpWatchers, i + 1)
  ELSE [s |-> [r.s EXCEPT
                 !.watchers[l + 1] = @ \o SubSeq(tmpWatchers, i + 2, Len(tmpWatchers)),
                 !.propQueue = <<>>],
        confl |-> At(tmpWatchers, i).clause,
        l |-> l, rest |-> SubSeq(tmpWatchers, i + 2, Len(tmpWatchers))]

propagateWatchers(s, l, tmpWatchers, i) ==
  IF i >= Len(tmpWatchers) THEN [s |-> s, confl |-> NoClause]
  ELSE IF guardIsTrue(s, At(tmpWatchers, i))
    THEN propagateWatchers(
           [noteGuard(s, At(tmpWatchers, i))
              EXCEPT !.watchers[l + 1] = Append(@, At(tmpWatchers, i))],
           l, tmpWatchers, i + 1)
  ELSE afterClausePropagate(ClausePropagate(s, At(tmpWatchers, i).clause, l),
                            l, tmpWatchers, i)

RECURSIVE Propagate(_)

\* The outer loop of Solver.Propagate once the watchers of one literal have
\* been visited with outcome r.
afterWatchers(r) ==
  IF ~Ok(r.s) \/ r.confl # NoClause THEN r ELSE Propagate(r.s)

\* Solver.Propagate: the solver after the call and the conflicting clause
\* returned (NoClause for nil).
Propagate(s) ==
  IF Len(s.propQueue) = 0 THEN [s |-> s, confl |-> NoClause]
  ELSE afterWatchers(
         propagateWatchers(
           [s EXCEPT !.propQueue = Tail(@), !.watchers[Head(s.propQueue) + 1] = <<>>],
           Head(s.propQueue), s.watchers[Head(s.propQueue) + 1], 0))

\* The earlier Solver.Propagate, whose watcher lists hold clauses only: its
\* inner loop calls Clause.Propagate on every clause of tmpWatchers.  The
\* lists here are the ones of the present solver; the guard of an entry is
\* carried along and never read.
RECURSIVE propagateClauses(_, _, _, _)

\* The body of the earlier loop once Clause.Propagate has returned r for the
\* clause at position i.
afterClausePropagateNoGuard(r, l, tmpWatchers, i) ==
  IF ~Ok(r.s) THEN [s |-> r.s, confl |-> NoClause]
  ELSE IF r.ok THEN propagateClauses(r.s, l, tmpWatchers, i + 1)
  ELSE [s |-> [r.s EXCEPT
                 !.watchers[l + 1] = @ \o SubSeq(tmpWatchers, i + 2, Len(tmpWatchers)),
                 !.propQueue = <<>>],
        confl |-> At(tmpWatchers, i).clause]

propagateClauses(s, l, tmpWatchers, i) ==
  IF i >= Len(tmpWatchers) THEN [s |-> s, confl |-> NoClause]
  ELSE afterClausePropagateNoGuard(ClausePropagate(s, At(tmpWatchers, i).clause, l),
                                   l, tmpWatchers, i)

RECURSIVE PropagateNoGuard(_)

\* The outer loop of the earlier Solver.Propagate once the clauses watching
\* one literal have been visited with outcome r.
afterClauses(r) ==
  IF ~Ok(r.s) \/ r.confl # NoClause THEN r ELSE PropagateNoGuard(r.s)

\* The earlier Solver.Propagate, without the guard test.
PropagateNoGuard(s) ==
  IF Len(s.propQueue) = 0 THEN [s |-> s, confl |-> NoClause]
  ELSE afterClauses(
         propagateClauses(
           [s EXCEPT !.propQueue = Tail(@), !.watchers[Head(s.propQueue) + 1] = <<>>],
           Head(s.propQueue), s.watchers[Head(s.propQueue) + 1], 0))

\* ------------------------------------------------------ conflict analysis

\* Solver.BumpClaActivity (the rescaling at 1e100 is out of reach of the
\* runs bounded here).
BumpClaActivity(s, c) == [s EXCEPT !.clauses[c].activity = @ + s.clauseInc]

\* Solver.DecayClaActivity with Options.ClauseDecay = 0.5.
DecayClaActivity(s) == [s EXCEPT !.clauseInc = @ * 2]

\* A faulty computeLBD on a seenLevel that is one slot short, as if
\* AddVariable had not expanded it for the first variable.
computeLBDOneShort(s, literals) ==
  LET levels == {s.assignLevels[VarID(literals[i]) + 1] : i \in 1..Len(literals)}
  IN [lbd |-> Cardinality(levels \ {0}),
      panic |-> NumVariables(s) <= 1
                  \/ \E l \in levels : l < 0 \/ l >= NumVariables(s) - 1]

\* Solver.computeLBD.  seenLevel has one slot per variable: a level outside
\* 0..NumVariables-1 is an index out of range.
computeLBD(s, literals) ==
  LET levels == {s.assignLevels[VarID(literals[i]) + 1] : i \in 1..Len(literals)}
  IN [lbd |-> Cardinality(levels \ {0}),
      panic |-> NumVariables(s) = 0 \/ \E l \in levels : l < 0 \/ l >= NumVariables(s)]

\* A faulty loop over tmpReason that stores the literals of the reason as
\* they are, without negating them.
RECURSIVE analyzeReasonUnnegated(_, _, _, _)
analyzeReasonUnnegated(s, tmpReason, i, a) ==
  IF i >= Len(tmpReason) THEN a
  ELSE
    LET q == At(tmpReason, i)
        v == VarID(q)
        level == s.assignLevels[v + 1]
    IN IF v \in a.seenVar THEN analyzeReasonUnnegated(s, tmpReason, i + 1, a)
       ELSE IF level = decisionLevel(s)
         THEN analyzeReasonUnnegated(s, tmpReason, i + 1,
                [a EXCEPT !.seenVar = @ \cup {v},
                          !.nImplicationPoints = @ + 1])
       ELSE analyzeReasonUnnegated(s, tmpReason, i + 1,
                [a EXCEPT !.seenVar = @ \cup {v},
                          !.backtrackLevel = Max(@, level),
                          !.tmpLearnts = Append(@, q)])

\* A faulty loop over tmpReason that never raises backtrackLevel.
RECURSIVE analyzeReasonLevelZero(_, _, _, _)
analyzeReasonLevelZero(s, tmpReason, i, a) ==
  IF i >= Len(tmpReason) THEN a
  ELSE
    LET q == At(tmpReason, i)
        v == VarID(q)
        level == s.assignLevels[v + 1]
    IN IF v \in a.seenVar THEN analyzeReasonLevelZero(s, tmpReason, i + 1, a)
       ELSE IF level = decisionLevel(s)
         THEN analyzeReasonLevelZero(s, tmpReason, i + 1,
                [a EXCEPT !.seenVar = @ \cup {v},
                          !.nImplicationPoints = @ + 1])
       ELSE analyzeReasonLevelZero(s, tmpReason, i + 1,
                [a EXCEPT !.seenVar = @ \cup {v},
                          !.tmpLearnts = Append(@, Opposite(q))])

\* The loop of analyze over tmpReason: seenVar, nImplicationPoints,
\* backtrackLevel and tmpLearnts after the literals from position i on.
RECURSIVE analyzeReason(_, _, _, _)
analyzeReason(s, tmpReason, i, a) ==
  IF i >= Len(tmpReason) THEN a
  ELSE
    LET q == At(tmpReason, i)
        v == VarID(q)
        level == s.assignLevels[v + 1]
    IN IF v \in a.seenVar THEN analyzeReason(s, tmpReason, i + 1, a)
       ELSE IF level = decisionLevel(s)
         THEN analyzeReason(s, tmpReason, i + 1,
                [a EXCEPT !.seenVar = @ \cup {v},
                          !.nImplicationPoints = @ + 1])
       ELSE analyzeReason(s, tmpReason, i + 1,
                [a EXCEPT !.seenVar = @ \cup {v},
                          !.backtrackLevel = Max(@, level),
                          !.tmpLearnts = Append(@, Opposite(q))])

\* The inner loop of analyze that selects the next literal to look at: the
\* highest trail position below trailTop whose variable is seen (-1 when the
\* loop runs off the trail).
nextSeen(s, seenVar, trailTop) ==
  LET cand == {k \in 0..(trailTop - 1) : VarID(At(s.trail, k)) \in seenVar}
  IN IF cand = {} THEN -1 ELSE CHOOSE k \in cand : \A m \in cand : m <= k

\* The opportunistic LBD update of analyze on clause c.
refreshLBD(s, c) ==
  IF isLearnt(s, c) /\ s.clauses[c].lbd > 2
    THEN LET n == computeLBD(s, s.clauses[c].literals)
             s1 == IF n.lbd < 30 /\ n.lbd < s.clauses[c].lbd THEN setProtected(s, c) ELSE s
         IN IF n.panic THEN Crash(s, "computeLBD: index out of range")
            ELSE [s1 EXCEPT !.clauses[c].lbd = n.lbd]
    ELSE s

\* The outer loop of analyze: c is the clause to explain, a the running
\* locals (seenVar, nImplicationPoints, backtrackLevel, tmpLearnts, trailTop).
RECURSIVE analyzeLoop(_, _, _, _)

\* The end of one round of that loop: the trail has been walked down to
\* position top, the next literal to look at; the loop ends when no
\* implication point is left.
analyzeSelect(s, conflicting, a, top) ==
  IF ~Ok(s) THEN [s |-> s, a |-> a]
  ELSE IF top < 0 THEN [s |-> Crash(s, "analyze: trail index out of range"), a |-> a]
  ELSE IF a.nImplicationPoints - 1 <= 0
    THEN [s |-> s, a |-> [a EXCEPT !.trailTop = top, !.nImplicationPoints = @ - 1]]
  ELSE analyzeLoop(s, conflicting, s.assignReasons[VarID(At(s.trail, top)) + 1],
                   [a EXCEPT !.trailTop = top, !.nImplicationPoints = @ - 1])

\* One round of that loop after the reason of c has been processed into the
\* locals a and the LBD of c refreshed.
analyzeRound(s, conflicting, a) ==
  analyzeSelect(s, conflicting, a, nextSeen(s, a.seenVar, a.trailTop))

\* One round of that loop on clause c whose activity has been bumped.
analyzeClause(s, conflicting, c, a) ==
  analyzeRound(refreshLBD(s, c), conflicting,
               analyzeReason(s, IF c = conflicting THEN explainConflict(s, c)
                                ELSE explainAssign(s, c), 0, a))

analyzeLoop(s, conflicting, c, a) ==
  IF c = NoClause THEN [s |-> Crash(s, "analyze: nil clause"), a |-> a]
  ELSE IF c # conflicting /\ Len(s.clauses[c].literals) = 0
    THEN [s |-> Crash(s, "explainAssign: slice bounds out of range"), a |-> a]
  ELSE analyzeClause(IF isLearnt(s, c) THEN BumpClaActivity(s, c) ELSE s,
                     conflicting, c, a)

\* The end of analyze, r being the outcome of its loop: the asserting literal
\* goes to position 0 of the learnt clause and the LBD is computed.
analyzeEnd(r) ==
  IF ~Ok(r.s) THEN [s |-> r.s, learnt |-> <<>>, lbd |-> 0, backtrackLevel |-> 0]
  ELSE
    LET learnt == [r.a.tmpLearnts EXCEPT ![1] = Opposite(At(r.s.trail, r.a.trailTop))]
        n == computeLBD(r.s, learnt)
    IN [s |-> IF n.panic THEN Crash(r.s, "computeLBD: index out of range") ELSE r.s,
        learnt |-> learnt, lbd |-> n.lbd, backtrackLevel |-> r.a.backtrackLevel]

\* Solver.analyze: the solver after the call, the learnt clause, its LBD and
\* the backtrack level.
analyze(s, conflicting) ==
  analyzeEnd(analyzeLoop(s, conflicting, conflicting,
               [seenVar |-> {}, nImplicationPoints |-> 0, backtrackLevel |-> 0,
                tmpLearnts |-> <<0>>, trailTop |-> Len(s.trail)]))

\* ------------------------------------------------------------- VarOrder
\* The heap vo.order (yagh.IntMap) is held as inHeap (membership) and
\* heapCost (the cost of a member, 0 for a non-member); Pop takes the member
\* of least cost, the lowest element among equal costs.

\* IntMap.Put
heapPut(s, v, cost) == [s EXCEPT !.inHeap[v + 1] = TRUE, !.heapCost[v + 1] = cost]

\* The element IntMap.Pop returns, -1 when the heap is empty.
heapMin(s) ==
  LET in == {v \in 0..(Len(s.inHeap) - 1) : s.inHeap[v + 1]}
      before(v, w) == \/ s.heapCost[v + 1] < s.heapCost[w + 1]
                      \/ (s.heapCost[v + 1] = s.heapCost[w + 1] /\ v <= w)
  IN IF in = {} THEN -1 ELSE CHOOSE v \in in : \A w \in in : before(v, w)

\* VarOrder.AddVar(0.0, true)
AddVar(s) ==
  LET varID == Len(s.phases)
  IN heapPut([s EXCEPT !.scores = Append(@, 0),
                       !.phases = Append(@, Lift(TRUE)),
                       !.inHeap = Append(@, FALSE),
                       !.heapCost = Append(@, 0)], varID, 0)

\* A faulty Reinsert that saves the phase and does not put the variable
\* back in the heap.
ReinsertPhaseOnly(s, v, val) ==
  IF s.phaseSaving THEN [s EXCEPT !.phases[v + 1] = val] ELSE s

\* VarOrder.Reinsert
Reinsert(s, v, val) ==
  heapPut(IF s.phaseSaving THEN [s EXCEPT !.phases[v + 1] = val] ELSE s,
          v, 0 - s.scores[v + 1])

\* VarOrder.DecayScores with Options.VariableDecay = 0.5 (the rescaling at
\* 1e100 is out of reach of the runs bounded here).
DecayScores(s) == [s EXCEPT !.scoreInc = @ * 2]

\* VarOrder.BumpScore
BumpScore(s, v) ==
  LET newScore == s.scores[v + 1] + s.scoreInc
      s1 == [s EXCEPT !.scores[v + 1] = newScore]
  IN IF s.inHeap[v + 1] THEN heapPut(s1, v, 0 - newScore) ELSE s1

\* VarOrder.NextDecision: the solver after the call and the literal returned.
RECURSIVE NextDecision(_)
NextDecision(s) ==
  LET next == heapMin(s) IN
  IF next < 0 THEN [s |-> Crash(s, "empty heap"), l |-> 0]
  ELSE
    LET s1 == [s EXCEPT !.inHeap[next + 1] = FALSE, !.heapCost[next + 1] = 0]
    IN IF VarValue(s1, next) # Unknown THEN NextDecision(s1)
       ELSE [s |-> s1,
             l |-> IF s1.phases[next + 1] = False
                     THEN NegativeLiteral(next) ELSE PositiveLiteral(next)]

\* The earlier VarOrder.AddVar, whose initial phase is an LBool.
AddVarPhase(s, initPhase) ==
  LET varID == Len(s.phases)
  IN heapPut([s EXCEPT !.scores = Append(@, 0),
                       !.phases = Append(@, initPhase),
                       !.inHeap = Append(@, FALSE),
                       !.heapCost = Append(@, 0)], varID, 0)

\* The earlier VarOrder.NextDecision, which returns the negative literal
\* of a variable whose phase is Unknown.
RECURSIVE NextDecisionNegative(_)
NextDecisionNegative(s) ==
  LET next == heapMin(s) IN
  IF next < 0 THEN [s |-> Crash(s, "empty heap"), l |-> 0]
  ELSE
    LET s1 == [s EXCEPT !.inHeap[next + 1] = FALSE, !.heapCost[next + 1] = 0]
    IN IF VarValue(s1, next) # Unknown THEN NextDecisionNegative(s1)
       ELSE [s |-> s1,
             l |-> IF s1.phases[next + 1] = True
                     THEN PositiveLiteral(next) ELSE NegativeLiteral(next)]

\* The threshold of rescaling, 1e100 in the program, of the runs that
\* exercise VarOrder on its own; the scores are whole numbers there, and
\* multiplying by 1e-100 is dividing by the threshold.
RescaleAt == 2

\* A faulty rescaling that leaves the keys of the heap as they are.
rescaleScoresOnly(s) ==
  [s EXCEPT !.scoreInc = @ \div RescaleAt,
            !.scores = [i \in DOMAIN @ |-> @[i] \div RescaleAt]]

\* VarOrder.rescaleScoresAndIncrement
rescaleScoresAndIncrement(s) ==
  [s EXCEPT !.scoreInc = @ \div RescaleAt,
            !.scores = [i \in DOMAIN @ |-> @[i] \div RescaleAt],
            !.heapCost = [i \in DOMAIN @ |->
                            IF s.inHeap[i] THEN 0 - (s.scores[i] \div RescaleAt)
                            ELSE @[i]]]

\* VarOrder.DecayScores with its rescaling.
DecayAndRescale(s) ==
  IF DecayScores(s).scoreInc > RescaleAt
    THEN rescaleScoresAndIncrement(DecayScores(s))
    ELSE DecayScores(s)

\* VarOrder.BumpScore with its rescaling.
BumpAndRescale(s, v) ==
  IF BumpScore(s, v).scores[v + 1] > RescaleAt
    THEN rescaleScoresAndIncrement(BumpScore(s, v))
    ELSE BumpScore(s, v)

\* ---------------------------------------------------------- trail, search

\* A faulty unnassignedLast that resets the opposite literal but leaves the
\* value of the trail literal itself.
unnassignedLastKeepsValue(s) ==
  [Reinsert(s, VarID(At(s.trail, Len(s.trail) - 1)),
            VarValue(s, VarID(At(s.trail, Len(s.trail) - 1))))
     EXCEPT !.assigns[Opposite(At(s.trail, Len(s.trail) - 1)) + 1] = Unknown,
            !.assignReasons[VarID(At(s.trail, Len(s.trail) - 1)) + 1] = NoClause,
            !.assignLevels[VarID(At(s.trail, Len(s.trail) - 1)) + 1] = -1,
            !.trail = Prefix(@, Len(@) - 1)]

\* A faulty unnassignedLast that leaves the level of the variable as it was.
unnassignedLastKeepsLevel(s) ==
  [Reinsert(s, VarID(At(s.trail, Len(s.trail) - 1)),
            VarValue(s, VarID(At(s.trail, Len(s.trail) - 1))))
     EXCEPT !.assigns[At(s.trail, Len(s.trail) - 1) + 1] = Unknown,
            !.assigns[Opposite(At(s.trail, Len(s.trail) - 1)) + 1] = Unknown,
            !.assignReasons[VarID(At(s.trail, Len(s.trail) - 1)) + 1] = NoClause,
            !.trail = Prefix(@, Len(@) - 1)]

\* Solver.unnassignedLast
unnassignedLast(s) ==
  LET l == At(s.trail, Len(s.trail) - 1)
      v == VarID(l)
      s1 == Reinsert(s, v, VarValue(s, v))
  IN [s1 EXCEPT !.assigns[l + 1] = Unknown,
                !.assigns[Opposite(l) + 1] = Unknown,
                !.assignReasons[v + 1] = NoClause,
                !.assignLevels[v + 1] = -1,
                !.trail = Prefix(@, Len(@) - 1)]

\* A faulty backtrackTo whose loop test is off by one: it stops one decision
\* level above the level asked for.
RECURSIVE backtrackToAbove(_, _)
backtrackToAbove(s, level) ==
  IF decisionLevel(s) <= level + 1 THEN s
  ELSE IF Len(s.trail) > At(s.trailLim, Len(s.trailLim) - 1)
    THEN backtrackToAbove(unnassignedLast(s), level)
  ELSE backtrackToAbove([s EXCEPT !.trailLim = Prefix(@, Len(@) - 1)], level)

\* Solver.backtrackTo
RECURSIVE backtrackTo(_, _)
backtrackTo(s, level) ==
  IF decisionLevel(s) <= level THEN s
  ELSE IF Len(s.trail) > At(s.trailLim, Len(s.trailLim) - 1)
    THEN backtrackTo(unnassignedLast(s), level)
  ELSE backtrackTo([s EXCEPT !.trailLim = Prefix(@, Len(@) - 1)], level)

\* Solver.assume
assume(s, l) == enqueue([s EXCEPT !.trailLim = Append(@, Len(s.trail))], l, NoClause).s

\* A faulty saveModel that indexes assigns by the variable instead of by its
\* positive literal.
saveModelByVariable(s) ==
  IF \E i \in 0..(NumVariables(s) - 1) : VarValue(s, i) = Unknown
    THEN Crash(s, "not a model")
    ELSE [s EXCEPT !.Models =
            Append(@, [i \in 1..NumVariables(s) |-> s.assigns[i] = True])]

\* Solver.saveModel
saveModel(s) ==
  IF \E i \in 0..(NumVariables(s) - 1) : VarValue(s, i) = Unknown
    THEN Crash(s, "not a model")
    ELSE [s EXCEPT !.Models =
            Append(@, [i \in 1..NumVariables(s) |-> VarValue(s, i - 1) = True])]

\* The loop of record that bumps the score of every variable of the clause.
RECURSIVE bumpAll(_, _, _)
bumpAll(s, literals, i) ==
  IF i >= Len(literals) THEN s
  ELSE bumpAll(BumpScore(s, VarID(At(literals, i))), literals, i + 1)

\* The end of record for a clause c that is not nil, s being the solver after
\* the enqueue.
recordLearnt(s, c, lbd) ==
  [bumpAll(BumpClaActivity(s, c), s.clauses[c].literals, 0)
     EXCEPT !.learnts = Append(@, c), !.clauses[c].lbd = lbd]

\* record after NewClause(clause, true) has returned r.
recordNew(r, clause, lbd) ==
  IF ~Ok(r.s) THEN r.s
  ELSE IF r.c = NoClause THEN enqueue(r.s, At(clause, 0), r.c).s
  ELSE recordLearnt(enqueue(r.s, At(clause, 0), r.c).s, r.c, lbd)

\* Solver.record
record(s, clause, lbd) == recordNew(NewClause(s, clause, TRUE), clause, lbd)

\* A faulty simplifyPtr that deletes the satisfied clauses but leaves them
\* in the slice.
RECURSIVE simplifyPtrKeepAll(_, _, _, _)
simplifyPtrKeepAll(s, f, i, kept) ==
  IF ~Ok(s) THEN s
  ELSE IF i >= Len(s[f]) THEN [s EXCEPT ![f] = kept]
  ELSE IF ClauseSimplify(s, At(s[f], i)).sat
    THEN simplifyPtrKeepAll(Delete(ClauseSimplify(s, At(s[f], i)).s, At(s[f], i)),
                            f, i + 1, Append(kept, At(s[f], i)))
  ELSE simplifyPtrKeepAll(ClauseSimplify(s, At(s[f], i)).s, f, i + 1,
                          Append(kept, At(s[f], i)))

\* Solver.simplifyPtr over the slice held in field f ("learnts" or
\* "constraints"): position i is examined next, kept holds the clauses kept.
RECURSIVE simplifyPtr(_, _, _, _)
simplifyPtr(s, f, i, kept) ==
  IF ~Ok(s) THEN s
  ELSE IF i >= Len(s[f]) THEN [s EXCEPT ![f] = kept]
  ELSE LET c == At(s[f], i)
           r == ClauseSimplify(s, c)
       IN IF r.sat THEN simplifyPtr(Delete(r.s, c), f, i + 1, kept)
          ELSE simplifyPtr(r.s, f, i + 1, Append(kept, c))

\* Simplify after its call of Propagate has returned p.
simplifyDB(p) ==
  IF ~Ok(p.s) THEN p.s
  ELSE IF p.confl # NoClause THEN [p.s EXCEPT !.unsat = TRUE]
  ELSE simplifyPtr(simplifyPtr(p.s, "learnts", 0, <<>>), "constraints", 0, <<>>)

\* Solver.Simplify: the solver after the call (the boolean returned is not
\* used by Search).
Simplify(s) ==
  IF decisionLevel(s) # 0 THEN Crash(s, "Simplify called on non root-level")
  ELSE IF Len(s.propQueue) # 0 THEN Crash(s, "propQueue should be empty")
  ELSE IF s.unsat THEN s
  ELSE simplifyDB(Propagate(s))

\* ------------------------------------------------------------ ReduceDB

\* The comparison ReduceDB hands to sort.Slice, on clauses ci and cj.
less(s, ci, cj) ==
  \/ Len(s.clauses[ci].literals) > 2 /\ Len(s.clauses[cj].literals) = 2
  \/ s.clauses[ci].lbd > s.clauses[cj].lbd
  \/ s.clauses[ci].activity < s.clauses[cj].activity

\* sort.Slice on fewer than 12 elements is an insertion sort: the inner loop
\* that sinks position j while it compares below its predecessor.
RECURSIVE sink(_, _, _)
sink(s, seq, j) ==
  IF j > 0 /\ less(s, At(seq, j), At(seq, j - 1))
    THEN sink(s, Swap(seq, j, j - 1), j - 1)
    ELSE seq

\* The outer loop of the insertion sort, from position i on.
RECURSIVE sortSlice(_, _, _)
sortSlice(s, seq, i) ==
  IF i >= Len(seq) THEN seq ELSE sortSlice(s, sink(s, seq, i), i + 1)

\* The loop of ReduceDB that protects the best tenth, from position i on.
RECURSIVE protectBest(_, _)
protectBest(s, i) ==
  IF i >= Len(s.learnts) THEN s
  ELSE protectBest(setProtected(s, At(s.learnts, i)), i + 1)

\* A faulty deletion loop that does not ask whether the clause is locked.
RECURSIVE reduceLoopUnlocked(_, _, _, _)
reduceLoopUnlocked(s, i, kept, toDelete) ==
  IF i >= Len(s.learnts) THEN [s EXCEPT !.learnts = kept]
  ELSE
    LET c == At(s.learnts, i) IN
    IF /\ toDelete > 0
       /\ s.clauses[c].lbd > 2
       /\ Len(s.clauses[c].literals) > 2
       /\ ~isProtected(s, c)
      THEN reduceLoopUnlocked(Delete(s, c), i + 1, kept, toDelete - 1)
      ELSE reduceLoopUnlocked(IF isProtected(s, c) THEN setUnprotected(s, c) ELSE s,
                              i + 1, Append(kept, c),
                              IF isProtected(s, c) THEN toDelete + 1 ELSE toDelete)

\* The deletion loop of ReduceDB: position i is examined next, kept holds
\* the clauses kept so far.
RECURSIVE reduceLoop(_, _, _, _)
reduceLoop(s, i, kept, toDelete) ==
  IF i >= Len(s.learnts) THEN [s EXCEPT !.learnts = kept]
  ELSE
    LET c == At(s.learnts, i) IN
    IF /\ toDelete > 0
       /\ ~locked(s, c)
       /\ s.clauses[c].lbd > 2
       /\ Len(s.clauses[c].literals) > 2
       /\ ~isProtected(s, c)
      THEN reduceLoop(Delete(s, c), i + 1, kept, toDelete - 1)
      ELSE reduceLoop(IF isProtected(s, c) THEN setUnprotected(s, c) ELSE s,
                      i + 1, Append(kept, c),
                      IF isProtected(s, c) THEN toDelete + 1 ELSE toDelete)

\* ReduceDB up to its deletion loop: learnts sorted from the worst to the
\* best, the best tenth protected.
reduceMarked(s) ==
  protectBest([s EXCEPT !.learnts = sortSlice(s, s.learnts, 1)],
              (Len(s.learnts) * 90) \div 100)

\* Solver.ReduceDB
ReduceDB(s) == reduceLoop(reduceMarked(s), 0, <<>>, Len(s.learnts) \div 2)

\* ---------------------------------------------------------------- Search

\* NewSolver: conflictBeforeReduceIncInc.
conflictBeforeReduceIncInc == 300
\* NewSolver: the initial conflictBeforeReduceInc.
conflictBeforeReduceInc0 == 2000
\* Solve: the initial numConflicts and its increment after every Search.
numConflicts0 == 100
numConflictsInc == 1000

\* A faulty shouldStop that does not test whether a stop condition is
\* configured: a negative MaxConflicts is below every conflict count.
shouldStopUnguarded(s, expired) ==
  \/ s.maxConflict <= s.Conflicts
  \/ (s.timeout >= 0 /\ expired)

\* A faulty shouldStop that lets one conflict more through: it stops only
\* when the count of conflicts is above MaxConflicts.
shouldStopLate(s, expired) ==
  /\ (s.maxConflict >= 0 \/ s.timeout >= 0)
  /\ \/ (s.maxConflict >= 0 /\ s.maxConflict < s.Conflicts)
     \/ (s.timeout >= 0 /\ expired)

\* Solver.shouldStop; expired is the outcome of timeout <= time.Since(startTime).
shouldStop(s, expired) ==
  /\ (s.maxConflict >= 0 \/ s.timeout >= 0)
  /\ \/ (s.maxConflict >= 0 /\ s.maxConflict <= s.Conflicts)
     \/ (s.timeout >= 0 /\ expired)

\* The conflict branch of Search after analyze has returned a: backtrack,
\* record the learnt clause, decay the activities.
learn(a) ==
  IF ~Ok(a.s) THEN [s |-> a.s, done |-> TRUE, status |-> Unknown, learnt |-> <<>>]
  ELSE [s |-> DecayScores(DecayClaActivity(
                record(backtrackTo(a.s, a.backtrackLevel), a.learnt, a.lbd))),
        done |-> FALSE, status |-> Unknown, learnt |-> a.learnt]

\* Search, the branch taken when Propagate returned the conflicting clause
\* confl.  done tells whether Search returns, status what it returns, learnt
\* the clause handed to record (<<>> when there is none).
onConflict(s, confl) ==
  IF decisionLevel(s) = 0
    THEN [s |-> [s EXCEPT !.Conflicts = @ + 1, !.unsat = TRUE],
          done |-> TRUE, status |-> False, learnt |-> <<>>]
  ELSE learn(analyze([s EXCEPT !.Conflicts = @ + 1], confl))

\* The end of the branch of Search without conflict: NextDecision has
\* returned d, which is assumed.
decide(d) ==
  [s |-> IF Ok(d.s) THEN assume(d.s, d.l) ELSE d.s,
   done |-> FALSE, status |-> Unknown, learnt |-> <<>>]

\* The branch of Search without conflict after the simplification and the
\* reduction of the clause database: a model, a restart, or a new decision.
modelOrDecide(s, conflictLimit) ==
  IF ~Ok(s) THEN [s |-> s, done |-> TRUE, status |-> Unknown, learnt |-> <<>>]
  ELSE IF NumAssigns(s) = NumVariables(s)
    THEN [s |-> backtrackTo(saveModel(s), 0), done |-> TRUE, status |-> True,
          learnt |-> <<>>]
  ELSE IF s.Conflicts > conflictLimit
    THEN [s |-> backtrackTo(s, 0), done |-> TRUE, status |-> Unknown, learnt |-> <<>>]
  ELSE decide(NextDecision(s))

\* Search: the threshold of the next reduction is raised before ReduceDB is
\* called.
raiseThreshold(s) ==
  [s EXCEPT !.conflictBeforeReduceInc = @ + conflictBeforeReduceIncInc,
            !.conflictBeforeReduce =
               @ + s.conflictBeforeReduceInc + conflictBeforeReduceIncInc]

\* The reduction of the clause database in that branch, when it is due.
reduceWhenDue(s) ==
  IF Ok(s) /\ s.Conflicts >= s.conflictBeforeReduce
    THEN ReduceDB(raiseThreshold(s))
    ELSE s

\* Search, the branch taken when Propagate returned nil.
noConflict(s, conflictLimit) ==
  modelOrDecide(reduceWhenDue(IF decisionLevel(s) = 0 THEN Simplify(s) ELSE s),
                conflictLimit)

\* One iteration of the loop of Search after Propagate has returned p.
afterPropagate(p, conflictLimit) ==
  IF ~Ok(p.s) THEN [s |-> p.s, done |-> TRUE, status |-> Unknown, learnt |-> <<>>]
  ELSE IF p.confl # NoClause THEN onConflict(p.s, p.confl)
  ELSE noConflict(p.s, conflictLimit)

\* One iteration of the loop of Search, shouldStop having returned false.
searchIteration(s, conflictLimit) ==
  afterPropagate(Propagate([s EXCEPT !.Iterations = @ + 1]), conflictLimit)

\* Solve: the statistics are reset before the first Search.
resetStatistics(s) == [s EXCEPT !.Conflicts = 0, !.Iterations = 0, !.Restarts = 0]

\* Search: the first statement counts the restart.
countRestart(s) == [s EXCEPT !.Restarts = @ + 1]

\* Solver.AddVariable
AddVariableOp(s) ==
  AddVar([s EXCEPT !.watchers = @ \o << <<>>, <<>> >>,
                   !.assignReasons = Append(@, NoClause),
                   !.assignLevels = Append(@, -1),
                   !.assigns = @ \o <<Unknown, Unknown>>])

\* A faulty end of AddClause that does not set unsat when NewClause reports
\* a clause that cannot be satisfied.
addConstraintNoFlag(r) ==
  IF ~Ok(r.s) THEN r.s
  ELSE IF r.c # NoClause THEN [r.s EXCEPT !.constraints = Append(@, r.c)]
  ELSE r.s

\* AddClause after NewClause(tmpLiterals, false) has returned r.
addConstraint(r) ==
  LET s1 == IF r.c # NoClause THEN [r.s EXCEPT !.constraints = Append(@, r.c)] ELSE r.s
  IN IF ~Ok(r.s) THEN r.s
     ELSE IF ~r.ok THEN [s1 EXCEPT !.unsat = TRUE] ELSE s1

\* Solver.AddClause at decision level 0.
AddClauseOp(s, clause) == addConstraint(NewClause(s, clause, FALSE))

\* ------------------------------------------------------------------ Queue
\* The ring buffer Queue[T]: a record with the fields ring, mask, start, end
\* and size.  Slots that were never written hold 0, the zero value.

\* Go's a & b, a | b and a >> k on integers that are not negative.
RECURSIVE BitAnd(_, _)
BitAnd(a, b) ==
  IF a = 0 \/ b = 0 THEN 0
  ELSE (a % 2) * (b % 2) + 2 * BitAnd(a \div 2, b \div 2)
RECURSIVE BitOr(_, _)
BitOr(a, b) ==
  IF a = 0 THEN b
  ELSE IF b = 0 THEN a
  ELSE Max(a % 2, b % 2) + 2 * BitOr(a \div 2, b \div 2)
RECURSIVE Shr(_, _)
Shr(a, k) == IF k = 0 \/ a = 0 THEN a ELSE Shr(a \div 2, k - 1)

\* One step i |= i >> k of nextPower2.
orShift(i, k) == BitOr(i, Shr(i, k))

\* nextPower2
nextPower2(i) ==
  orShift(orShift(orShift(orShift(orShift(orShift(i, 1), 2), 4), 8), 16), 32) + 1

\* make([]T, n)
Zeroes(n) == [k \in 1..n |-> 0]

\* NewQueue
NewQueue(capa) ==
  [ring |-> Zeroes(nextPower2(capa)), mask |-> nextPower2(capa) - 1,
   start |-> 0, end |-> 0, size |-> 0]

\* Queue.IsEmpty
IsEmpty(q) == q.size = 0

\* Queue.Size
Size(q) == q.size

\* Queue.Clear
Clear(q) == [q EXCEPT !.start = 0, !.end = 0, !.size = 0]

\* A faulty resize that copies the ring as it lies also when start is not
\* 0, without rotating it.
resizeUnrotated(q) ==
  [q EXCEPT !.ring = q.ring \o Zeroes(Len(q.ring)),
            !.mask = 2 * Len(q.ring) - 1,
            !.end = q.size]

\* Queue.resize
resize(q) ==
  IF q.start = 0
    THEN [q EXCEPT !.ring = q.ring \o Zeroes(Len(q.ring)),
                   !.mask = 2 * Len(q.ring) - 1,
                   !.end = q.size]
    ELSE [q EXCEPT !.ring = SubSeq(q.ring, q.start + 1, Len(q.ring))
                              \o SubSeq(q.ring, 1, q.end)
                              \o Zeroes(2 * Len(q.ring) - (Len(q.ring) - q.start) - q.end),
                   !.start = 0,
                   !.end = Len(q.ring),
                   !.mask = 2 * Len(q.ring) - 1]

\* Push once the ring has room.
store(q, elem) ==
  [q EXCEPT !.ring[q.end + 1] = elem,
            !.end = BitAnd(q.end + 1, q.mask),
            !.size = q.size + 1]

\* Queue.Push
Push(q, elem) == store(IF q.size = Len(q.ring) THEN resize(q) ELSE q, elem)

\* Queue.Pop on a queue that is not empty: the queue after the call and the
\* element returned.
Pop(q) ==
  [q |-> [q EXCEPT !.start = BitAnd(q.start + 1, q.mask), !.size = q.size - 1],
   elem |-> At(q.ring, q.start)]

\* ------------------------------------------------------- state variables

VARIABLES
  \* fields of Solver
  assigns, assignLevels, assignReasons, clauses, constraints, learnts,
  watchers, propQueue, trail, trailLim, unsat, Models, clauseInc,
  conflictBeforeReduce, conflictBeforeReduceInc,
  maxConflict, timeout,
  \* fields of Solver.Statistics
  Conflicts, Iterations, Restarts,
  \* fields of VarOrder
  scores, scoreInc, phases, phaseSaving, inHeap, heapCost,
  \* "no", or the panic or fatal error that ended the program
  crashed,
  \* the position of the running Solve call and its locals
  pc, status, numConflicts, conflictLimit, timedOut,
  \* the value the last Solve call returned, and the number of Solve calls
  result, solves,
  \* the error the last AddClause call returned: "nil", "error", or "none"
  \* when no call was made or the last one did not return
  err,
  \* history: the clauses passed to AddClause by the client that builds the
  \* formula, the blocking clauses passed to AddClause by the enumeration loop
  \* of solveAll, and the clauses handed to record
  original, blocking, recorded,
  \* a Queue[int] of its own, as the queue tests use one, with its history:
  \* the elements pushed and neither popped nor cleared, the element the last
  \* Pop returned, the numbers of Push calls and of Pop calls that returned,
  \* and what the last Push did to the ring ("kept", "copied" or "rotated")
  queue, pending, popped, pushes, pops, grown,
  \* a solver of package sat that holds one clause with its prevPos, where
  \* that solver stands ("run", "conflict", "learn", "deleted"), and the call of
  \* Clause.Propagate on the clause that the last step made, if it made one
  satSolver, satState, lastCall,
  \* whether the last operation of VarOrder rescaled the scores
  rescaled,
  \* for every variable the value it had when it was last unassigned
  \* (Unknown: never assigned so far), and the last literal NextDecision
  \* returned with the entry of its variable at that moment
  lastValues, lastDecision,
  \* a ResetSet on its own: the set, the elements added since the last
  \* Clear, and whether Clear has been called ("none", "some") or has
  \* wrapped the timestamp ("wrapped")
  resetSet, members, clears,
  \* the slice pools: for every pool the capacities of the slices it holds,
  \* the slices the client holds, and the last call of allocSlice
  pools, held, lastAlloc

solverVars ==
  <<assigns, assignLevels, assignReasons, clauses, constraints, learnts,
    watchers, propQueue, trail, trailLim, unsat, Models, clauseInc,
    conflictBeforeReduce, conflictBeforeReduceInc, maxConflict, timeout,
    Conflicts, Iterations, Restarts, scores, scoreInc, phases, phaseSaving, inHeap,
    heapCost, crashed>>

callVars ==
  <<pc, status, numConflicts, conflictLimit, timedOut, result, solves, err>>

queueVars == <<queue, pending, popped, pushes, pops, grown>>

clauseVars == <<satSolver, satState, lastCall>>

\* The variables of the components that are run on their own.
orderVars == <<rescaled>>

phaseVars == <<lastValues, lastDecision>>

setVars == <<resetSet, members, clears>>

poolVars == <<pools, held, lastAlloc>>

partVars == <<clauseVars, orderVars, phaseVars, setVars, poolVars>>

vars == <<solverVars, callVars, original, blocking, recorded, queueVars, partVars>>

\* The solver object of the current state.
Cur ==
  [assigns |-> assigns, assignLevels |-> assignLevels,
   assignReasons |-> assignReasons, clauses |-> clauses,
   constraints |-> constraints, learnts |-> learnts, watchers |-> watchers,
   propQueue |-> propQueue, trail |-> trail, trailLim |-> trailLim,
   unsat |-> unsat, Models |-> Models, clauseInc |-> clauseInc,
   conflictBeforeReduce |-> conflictBeforeReduce,
   conflictBeforeReduceInc |-> conflictBeforeReduceInc,
   Conflicts |-> Conflicts, Iterations |-> Iterations, Restarts |-> Restarts,
   maxConflict |-> maxConflict, timeout |-> timeout,
   scores |-> scores, scoreInc |-> scoreInc, phases |-> phases,
   phaseSaving |-> phaseSaving, inHeap |-> inHeap, heapCost |-> heapCost,
   crashed |-> crashed]

\* The solver object of the next state is s.
Becomes(s) ==
  /\ assigns' = s.assigns /\ assignLevels' = s.assignLevels
  /\ assignReasons' = s.assignReasons /\ clauses' = s.clauses
  /\ constraints' = s.constraints /\ learnts' = s.learnts
  /\ watchers' = s.watchers /\ propQueue' = s.propQueue
  /\ trail' = s.trail /\ trailLim' = s.trailLim
  /\ unsat' = s.unsat /\ Models' = s.Models /\ clauseInc' = s.clauseInc
  /\ conflictBeforeReduce' = s.conflictBeforeReduce
  /\ conflictBeforeReduceInc' = s.conflictBeforeReduceInc
  /\ Conflicts' = s.Conflicts /\ Iterations' = s.Iterations
  /\ Restarts' = s.Restarts /\ maxConflict' = s.maxConflict
  /\ timeout' = s.timeout /\ scores' = s.scores /\ scoreInc' = s.scoreInc
  /\ phases' = s.phases /\ phaseSaving' = s.phaseSaving
  /\ inHeap' = s.inHeap /\ heapCost' = s.heapCost /\ crashed' = s.crashed

\* ----------------------------------------------------------------- inputs

\* Options handed to NewSolver: MaxConflicts, Timeout, PhaseSaving
\* (ClauseDecay and VariableDecay are 0.5 throughout).
OptionSet ==
  { [MaxConflicts |-> -1, Timeout |-> -1, PhaseSaving |-> FALSE],
    [MaxConflicts |-> -1, Timeout |-> -1, PhaseSaving |-> TRUE],
    [MaxConflicts |-> 0, Timeout |-> -1, PhaseSaving |-> FALSE],
    [MaxConflicts |-> 1, Timeout |-> -1, PhaseSaving |-> FALSE],
    [MaxConflicts |-> 2, Timeout |-> -1, PhaseSaving |-> FALSE],
    [MaxConflicts |-> -1, Timeout |-> 1, PhaseSaving |-> FALSE] }

\* The clauses a client passes to AddClause, over the literals of variables
\* 0, 1, 2 (0 and 1 are the literals of variable 0, 2 and 3 of variable 1,
\* 4 and 5 of variable 2).  All clauses of one run come from one pool.
ClausePools ==
  { { <<1, 3, 4>>, <<1, 3, 5>>, <<2, 4>>, <<2, 5>> },
    { <<0>>, <<1>>, <<>>, <<0, 1>>, <<2, 0, 0>> },
    { <<1, 2>>, <<1, 3>>, <<4, 1, 2>>, <<1>>, <<5>> },
    { <<0, 2>>, <<2, 4, 1>>, <<1, 3, 5>>, <<0>> } }

\* ------------------------------------ Clause.Propagate with prevPos (sat)
\* Package sat keeps in every clause prevPos, the position at which the
\* search for a new literal to watch last succeeded.  Its clause is run here
\* in a solver of its own, a record with the fields of the solver above.

MaxLits == 4
MaxLevels == 1

\* A part literals[lo:hi] of the scan for a literal that is not False: whether
\* one was found, the position where the scan stopped and the positions it
\* examined in order.
scanPart(s, lits, lo, hi) ==
  LET cand == {i \in lo..(hi - 1) : LitValue(s, At(lits, i)) # False}
      stop == IF cand = {} THEN hi - 1 ELSE CHOOSE i \in cand : \A k \in cand : i <= k
  IN [found |-> cand # {}, pos |-> stop,
      seen |-> [k \in 1..(stop - lo + 1) |-> lo + k - 1]]

\* A faulty scan that stops at the end of the clause and never examines
\* literals[2:prevPos].
prevPosScanNoWrap(s, lits, p) == scanPart(s, lits, p, Len(lits))

\* The two loops of Clause.Propagate of package sat, from position p:
\* literals[p:], then literals[2:p].
prevPosScan(s, lits, p) ==
  LET a == scanPart(s, lits, p, Len(lits))
      b == scanPart(s, lits, 2, p)
  IN IF a.found THEN a
     ELSE [found |-> b.found, pos |-> b.pos, seen |-> a.seen \o b.seen]

\* Clause.Propagate of package sat: the solver after the call, the boolean
\* returned and the positions the scan examined.
ClausePropagatePrevPos(s, c, l) ==
  LET opp == Opposite(l)
      lits0 == s.clauses[c].literals
  IN IF Len(lits0) = 0 \/ (Len(lits0) = 1 /\ At(lits0, 0) = opp)
       THEN [s |-> Crash(s, "Clause.Propagate: index out of range"), ok |-> TRUE,
             seen |-> <<>>]
     ELSE
       LET lits == IF At(lits0, 0) = opp
                     THEN [lits0 EXCEPT ![1] = At(lits0, 1), ![2] = opp]
                     ELSE lits0
           s1 == [s EXCEPT !.clauses[c].literals = lits]
           p == IF s.clauses[c].prevPos >= Len(lits) THEN 2 ELSE s.clauses[c].prevPos
           r == prevPosScan(s1, lits, p)
       IN CASE LitValue(s1, At(lits, 0)) = True ->
                 [s |-> Watch(s1, c, l, At(lits, 0)), ok |-> TRUE, seen |-> <<>>]
            [] /\ LitValue(s1, At(lits, 0)) # True
               /\ (p > Len(lits) \/ (p < 2 /\ ~r.found)) ->
                 [s |-> Crash(s1, "Clause.Propagate: slice bounds out of range"),
                  ok |-> TRUE, seen |-> <<>>]
            [] LitValue(s1, At(lits, 0)) # True /\ p <= Len(lits) /\ r.found ->
                 LET lits2 == [lits EXCEPT ![2] = At(lits, r.pos), ![r.pos + 1] = opp]
                     s2 == [s1 EXCEPT !.clauses[c].literals = lits2,
                                      !.clauses[c].prevPos = r.pos]
                 IN [s |-> Watch(s2, c, Opposite(At(lits2, 1)), At(lits2, 0)),
                     ok |-> TRUE, seen |-> r.seen]
            [] OTHER ->
                 [seen |-> r.seen] @@
                 enqueue(Watch([s1 EXCEPT !.clauses[c].prevPos = p], c, l, At(lits, 0)),
                         At(lits, 0), c)

\* A solver of package sat with n variables and no clause.
NewSatSolver(n) ==
  [assigns |-> [i \in 1..(2 * n) |-> Unknown],
   assignLevels |-> [i \in 1..n |-> -1],
   assignReasons |-> [i \in 1..n |-> NoClause],
   trail |-> <<>>, trailLim |-> <<>>, propQueue |-> <<>>,
   clauses |-> <<>>, watchers |-> [i \in 1..(2 * n) |-> <<>>],
   crashed |-> "no"]

\* NewClause of package sat for a problem clause of two or more literals of
\* distinct unassigned variables: the literals are copied, prevPos is 2 and
\* the first two literals are watched.
satNewClause(s, lits) ==
  LET c == Len(s.clauses) + 1
      s1 == [s EXCEPT !.clauses = Append(@, [literals |-> lits, prevPos |-> 2])]
  IN Watch(Watch(s1, c, Opposite(At(lits, 0)), At(lits, 1)),
           c, Opposite(At(lits, 1)), At(lits, 0))

\* Solver.backtrackTo on the solver of one clause: the literals of the
\* trail above the level are unassigned.
satBacktrackTo(s, level) ==
  LET n == At(s.trailLim, level)
      gone == {s.trail[k] : k \in (n + 1)..Len(s.trail)}
  IN [s EXCEPT
        !.assigns = [i \in DOMAIN @ |->
                       IF (i - 1) \in gone \/ Opposite(i - 1) \in gone
                         THEN Unknown ELSE @[i]],
        !.assignLevels = [v \in DOMAIN @ |->
                            IF \E g \in gone : VarID(g) = v - 1 THEN -1 ELSE @[v]],
        !.assignReasons = [v \in DOMAIN @ |->
                             IF \E g \in gone : VarID(g) = v - 1 THEN NoClause ELSE @[v]],
        !.trail = Prefix(@, n),
        !.trailLim = Prefix(@, level)]

\* Solver.Propagate for the one literal at the head of the queue, with a
\* single clause in the solver: the watcher of the literal is skipped when
\* its guard is True, and Clause.Propagate is called on it otherwise.
satPropagateOne(s) ==
  LET l == Head(s.propQueue)
      tmpWatchers == s.watchers[l + 1]
      s1 == [s EXCEPT !.propQueue = Tail(@), !.watchers[l + 1] = <<>>]
  IN IF Len(tmpWatchers) = 0
       THEN [s |-> s1, ok |-> TRUE, seen |-> <<>>, called |-> FALSE]
     ELSE IF guardIsTrue(s1, At(tmpWatchers, 0))
       THEN [s |-> [s1 EXCEPT !.watchers[l + 1] = tmpWatchers],
             ok |-> TRUE, seen |-> <<>>, called |-> FALSE]
     ELSE [called |-> TRUE, l |-> l, before |-> s1]
          @@ ClausePropagatePrevPos(s1, At(tmpWatchers, 0).clause, l)

\* The clause has not been propagated yet.
NoCall == [called |-> FALSE]

\* What the call of Clause.Propagate with outcome r did: the literal and the
\* solver it was called with, the outcome, and the outcome of
\* Clause.Propagate of package internal/sat, with its linear scan, on that
\* same solver.
CallOf(r) ==
  [called |-> TRUE, l |-> r.l, before |-> r.before, after |-> r.s, ok |-> r.ok,
   seen |-> r.seen, linear |-> ClausePropagate(r.before, 1, r.l)]

InitClause ==
  /\ \E n \in 2..MaxLits :
       satSolver = satNewClause(NewSatSolver(n), [i \in 1..n |-> PositiveLiteral(i - 1)])
  /\ satState = "run"
  /\ lastCall = NoCall

\* ------------------------------------------------------------ ResetSet

\* The width of addedTimestamp, 16 or 64 bits in the program.
TimestampBits == 2

\* The largest capacity of the set.
MaxCapacity == 3

\* &ResetSet{}
NewResetSet == [addedAt |-> <<>>, addedTimestamp |-> 0]

\* ResetSet.Contains
Contains(rs, v) == rs.addedAt[v + 1] = rs.addedTimestamp

\* ResetSet.Add
Add(rs, v) == [rs EXCEPT !.addedAt[v + 1] = rs.addedTimestamp]

\* A faulty Clear that restarts the timestamp at 1 without zeroing the
\* array.
ClearKeepsArray(rs) ==
  LET t == (rs.addedTimestamp + 1) % (2 ^ TimestampBits)
  IN [rs EXCEPT !.addedTimestamp = IF t = 0 THEN 1 ELSE t]

\* ResetSet.Clear: the increment wraps at the width of the timestamp.
ResetSetClear(rs) ==
  LET t == (rs.addedTimestamp + 1) % (2 ^ TimestampBits)
  IN IF t = 0
       THEN [addedAt |-> [i \in DOMAIN rs.addedAt |-> 0], addedTimestamp |-> 1]
       ELSE [rs EXCEPT !.addedTimestamp = t]

\* ResetSet.Expand
Expand(rs) == [rs EXCEPT !.addedAt = Append(@, 0)]

InitSet == resetSet = NewResetSet /\ members = {} /\ clears = "none"

\* ---------------------------------------------------------- slice pools

\* Number of slice pools.
nPools == 4

\* The minimum capacity for slices in the last pool.
lastCapa == 2 ^ nPools

\* The largest capacity asked of allocSlice, and the largest number of
\* slices the client holds at a time.
MaxCapa == 17
MaxHeld == 2

\* bits.Len
RECURSIVE bitsLen(_)
bitsLen(x) == IF x = 0 THEN 0 ELSE 1 + bitsLen(x \div 2)

\* pid: the pool of a capacity.  With capa = 0 the shift count is negative,
\* which panics; pid is -2 then.
pid(capa) ==
  IF capa >= lastCapa THEN nPools - 1
  ELSE IF bitsLen(capa) - 1 < 0 THEN -2
  ELSE IF capa < 2 ^ (bitsLen(capa) - 1) THEN bitsLen(capa) - 2
  ELSE bitsLen(capa) - 1

\* pools[i].New of init: the capacity of a new slice of pool i.
poolNew(i) == 2 ^ (i + 1)

\* The slices pools[i].Get() may return: one the pool holds, or a new one
\* (a sync.Pool may drop what it holds at any time).
poolGet(ps, i) == ps[i + 1] \cup {poolNew(i)}

\* allocSlice once the pool has handed back a slice of capacity got: the
\* capacity of the slice returned.
allocSlice(capa, got) ==
  IF capa < lastCapa THEN got
  ELSE IF got < capa THEN capa
  ELSE got

\* freeSlice of a slice of capacity c: the pools afterwards.
freeSlice(ps, c) == [ps EXCEPT ![pid(c) + 1] = @ \cup {c}]

InitPools ==
  /\ pools = [i \in 1..nPools |-> {}]
  /\ held = <<>>
  /\ lastAlloc = [made |-> FALSE]

\* The solver of package sat is not used.
InitParts ==
  /\ satSolver = NewSatSolver(0)
  /\ satState = "run"
  /\ lastCall = NoCall
  /\ rescaled = FALSE
  /\ lastValues = <<>> /\ lastDecision = [made |-> FALSE]
  /\ InitSet /\ InitPools

\* ------------------------------------------------------------------ Init

\* NewQueue(capa), no call made yet.
InitQueue(capa) ==
  /\ queue = NewQueue(capa)
  /\ pending = <<>> /\ popped = 0 /\ pushes = 0 /\ pops = 0 /\ grown = "kept"

\* NewSolver(ops), no call made yet.
InitSolver ==
  /\ \E ops \in OptionSet :
       /\ maxConflict = ops.MaxConflicts
       /\ timeout = ops.Timeout
       /\ phaseSaving = ops.PhaseSaving
  /\ assigns = <<>> /\ assignLevels = <<>> /\ assignReasons = <<>>
  /\ clauses = <<>> /\ constraints = <<>> /\ learnts = <<>>
  /\ watchers = <<>> /\ propQueue = <<>> /\ trail = <<>> /\ trailLim = <<>>
  /\ unsat = FALSE /\ Models = <<>> /\ clauseInc = 1
  /\ conflictBeforeReduce = 0
  /\ conflictBeforeReduceInc = conflictBeforeReduceInc0
  /\ Conflicts = 0 /\ Iterations = 0 /\ Restarts = 0
  /\ scores = <<>> /\ scoreInc = 1 /\ phases = <<>>
  /\ inHeap = <<>> /\ heapCost = <<>>
  /\ crashed = "no"
  /\ pc = "idle" /\ status = Unknown /\ numConflicts = 0 /\ conflictLimit = 0
  /\ timedOut = FALSE /\ result = Unknown /\ solves = 0 /\ err = "none"
  /\ original = <<>> /\ blocking = <<>> /\ recorded = {}

\* A new solver, and beside it a new queue that the solver never touches.
Init == InitSolver /\ InitQueue(1) /\ InitParts

\* --------------------------------------------------------------- actions

\* The program position after the solver became s: the crash ends the run.
Position(s, next) == IF Ok(s) THEN next ELSE "crashed"

\* The solver becomes s and the program goes on at next.
Continue(s, next) == Becomes(s) /\ pc' = Position(s, next)

\* The client calls AddVariable.
AddVariable ==
  /\ pc = "idle"
  /\ NumVariables(Cur) < MaxVars
  /\ Becomes(AddVariableOp(Cur))
  /\ UNCHANGED <<callVars, original, blocking, recorded, queueVars, partVars>>

\* A call of Solver.AddClause(clause): away from decision level 0 it returns
\* an error and does nothing.
CallAddClause(clause) ==
  IF decisionLevel(Cur) # 0
    THEN /\ err' = "error"
         /\ UNCHANGED <<solverVars, pc, status, numConflicts, conflictLimit,
                        timedOut, result, solves>>
    ELSE /\ Continue(AddClauseOp(Cur, clause), "idle")
         /\ err' = IF Ok(AddClauseOp(Cur, clause)) THEN "nil" ELSE "none"
         /\ UNCHANGED <<status, numConflicts, conflictLimit, timedOut, result, solves>>

\* The client calls AddClause with a clause of its pool that it has not
\* passed before, over the variables declared so far.
AddClause ==
  /\ pc = "idle"
  /\ Len(original) < MaxClauses
  /\ \E pool \in ClausePools : \E clause \in pool :
       /\ \A k \in 1..Len(original) : original[k] \in pool /\ original[k] # clause
       /\ \A i \in 1..Len(clause) : VarID(clause[i]) < NumVariables(Cur)
       /\ CallAddClause(clause)
       /\ original' = Append(original, clause)
  /\ UNCHANGED <<blocking, recorded, queueVars, partVars>>

\* A faulty entry of Search that does not test the unsat flag.
EnterSearchUnchecked(nConflicts) ==
  /\ pc' = "search" /\ status' = Unknown
  /\ conflictLimit' = Conflicts' + nConflicts

\* The entry of Search(nConflicts) up to the loop: the position and the
\* locals of the call.
EnterSearch(nConflicts) ==
  IF unsat
    THEN /\ pc' = "ret" /\ status' = False /\ UNCHANGED conflictLimit
    ELSE /\ pc' = "search" /\ status' = Unknown
         /\ conflictLimit' = Conflicts' + nConflicts

\* Solve up to the loop of the first Search.
BeginSolve ==
  /\ solves' = solves + 1
  /\ Becomes(countRestart(resetStatistics(Cur)))
  /\ numConflicts' = numConflicts0
  /\ timedOut' = FALSE
  /\ EnterSearch(numConflicts0)
  /\ UNCHANGED <<result, err, original, blocking, recorded, queueVars, partVars>>

\* The client calls Solve.
SolveBegin ==
  /\ pc = "idle"
  /\ solves < MaxSolves
  /\ BeginSolve

\* The loop of Search after an iteration with outcome r.
Iterated(r) ==
  /\ Continue(r.s, IF r.done THEN "ret" ELSE "search")
  /\ status' = r.status
  /\ recorded' = IF r.learnt = <<>> THEN recorded ELSE recorded \cup {r.learnt}

\* One pass through the loop of Search: the shouldStop test and, when it is
\* false, one iteration.
SearchStep ==
  /\ pc = "search"
  /\ \E expired \in (IF timeout >= 0 THEN {timedOut, TRUE} ELSE {timedOut}) :
       /\ timedOut' = expired
       /\ IF shouldStop(Cur, expired)
            THEN /\ pc' = "ret" /\ status' = Unknown
                 /\ UNCHANGED <<solverVars, recorded>>
            ELSE Iterated(searchIteration(Cur, conflictLimit))
  /\ UNCHANGED <<numConflicts, conflictLimit, result, solves, err, original,
                 blocking, queueVars, partVars>>

\* Search has returned status: the rest of the loop body of Solve, and either
\* the next Search or the end of Solve.
SolveLoop ==
  /\ pc = "ret"
  /\ \E expired \in (IF timeout >= 0 THEN {timedOut, TRUE} ELSE {timedOut}) :
       IF ~shouldStop(Cur, expired) /\ status = Unknown
         THEN /\ numConflicts' = numConflicts + numConflictsInc
              /\ timedOut' = expired
              /\ Becomes(countRestart(Cur))
              /\ UNCHANGED result
              /\ EnterSearch(numConflicts')
         ELSE /\ Becomes(backtrackTo(Cur, 0))
              /\ pc' = "idle"
              /\ result' = status
              \* the locals of the call are gone
              /\ status' = Unknown /\ numConflicts' = 0 /\ conflictLimit' = 0
              /\ timedOut' = FALSE
  /\ UNCHANGED <<solves, err, original, blocking, recorded, queueVars, partVars>>

Next == AddVariable \/ AddClause \/ SolveBegin \/ SearchStep \/ SolveLoop

Spec == Init /\ [][Next]_vars

\* ------------------------------------- no stop condition, fair scheduling

\* NewSolver with MaxConflicts < 0 and Timeout < 0.
InitNoStop == Init /\ maxConflict < 0 /\ timeout < 0

\* A pass through the loop of Search, seen by what it counts: one more
\* iteration, or the end of the loop.
SearchRuns ==
  /\ pc = "search"
  /\ pc' \in {"search", "ret", "crashed"}
  /\ Iterations' \in {Iterations, Iterations + 1}

\* A pass through the loop of Solve, seen by what it counts: one more
\* restart, or the return.
SolveRuns ==
  /\ pc = "ret"
  /\ pc' \in {"ret", "search", "idle"}
  /\ Restarts' \in {Restarts, Restarts + 1}

\* A running Solve call keeps running: the program is sequential and nothing
\* suspends it between two passes of its loops.
Running == WF_<<pc, Iterations>>(SearchRuns) /\ WF_<<pc, Restarts>>(SolveRuns)

SpecNoStop == InitNoStop /\ [][Next]_vars /\ Running

\* ------------------------------------------------ solveAll (yass_test.go)

\* The blocking clause solveAll builds from the model: every literal flipped.
modelClause(model) ==
  [i \in 1..Len(model) |->
     IF model[i] THEN NegativeLiteral(i - 1) ELSE PositiveLiteral(i - 1)]

\* The formula is built before the loop of solveAll starts.
BuildVariable == solves = 0 /\ AddVariable
BuildClause == solves = 0 /\ AddClause

\* The loop condition of solveAll: s.Solve() is called first, and again after
\* every model has been forbidden.
EnumSolve ==
  /\ pc = "idle"
  /\ \/ solves = 0
     \/ solves > 0 /\ result = True /\ Len(blocking) = Len(Models)
  /\ BeginSolve

\* The loop body of solveAll: AddClause of the clause that forbids the last
\* model.
AddBlocking ==
  /\ pc = "idle"
  /\ solves > 0 /\ result = True /\ Len(blocking) < Len(Models)
  /\ CallAddClause(modelClause(Models[Len(Models)]))
  /\ blocking' = Append(blocking, modelClause(Models[Len(Models)]))
  /\ UNCHANGED <<original, recorded, queueVars, partVars>>

NextEnum ==
  BuildVariable \/ BuildClause \/ EnumSolve \/ AddBlocking \/ SearchStep \/ SolveLoop

\* The test calls solveAll once the formula is built, and the loop of
\* solveAll goes on to its next call of Solve, seen by the count of calls.
EnumSolves ==
  /\ pc = "idle"
  /\ \/ solves = 0
     \/ solves > 0 /\ result = True /\ Len(blocking) = Len(Models)
  /\ solves' = solves + 1

\* The loop of solveAll goes on to its next call of AddClause, seen by the
\* clause it passes.
EnumBlocks ==
  /\ pc = "idle"
  /\ solves > 0 /\ result = True /\ Len(blocking) < Len(Models)
  /\ blocking' = Append(blocking, modelClause(Models[Len(Models)]))

\* solveAll on a solver without stop condition (TestSolveAll uses
\* NewDefaultSolver).
SpecEnum ==
  /\ InitNoStop /\ [][NextEnum]_vars
  /\ Running /\ WF_solves(EnumSolves) /\ WF_blocking(EnumBlocks)

\* ------------------------------------------- the queue on its own
\* A program that holds one Queue[int] and calls Push, Pop and Clear on it
\* in any order, as the queue tests and examples do.  The elements pushed
\* are 1, 2, 3, ... so that every element is told from every other and from
\* the zero value of an unwritten slot.

MaxPushes == 9
QueueCapacities == {0, 1, 2}

solverIdle == UNCHANGED <<solverVars, callVars, original, blocking, recorded, partVars>>

\* q.Push(pushes + 1)
QueuePush ==
  /\ pc = "idle" /\ pushes < MaxPushes
  /\ queue' = Push(queue, pushes + 1)
  /\ pending' = Append(pending, pushes + 1)
  /\ pushes' = pushes + 1
  /\ grown' = IF queue.size # Len(queue.ring) THEN "kept"
              ELSE IF queue.start = 0 THEN "copied" ELSE "rotated"
  /\ UNCHANGED <<popped, pops>>
  /\ solverIdle

\* q.Pop() on a queue that holds an element.
QueuePop ==
  /\ pc = "idle" /\ queue.size # 0
  /\ queue' = Pop(queue).q
  /\ popped' = Pop(queue).elem
  /\ pending' = Tail(pending)
  /\ pops' = pops + 1
  /\ UNCHANGED <<pushes, grown>>
  /\ solverIdle

\* q.Pop() on an empty queue panics.
QueuePopEmpty ==
  /\ pc = "idle" /\ queue.size = 0
  /\ pc' = "crashed" /\ crashed' = "pop on an empty queue"
  /\ UNCHANGED <<assigns, assignLevels, assignReasons, clauses, constraints,
                 learnts, watchers, propQueue, trail, trailLim, unsat, Models,
                 clauseInc, conflictBeforeReduce, conflictBeforeReduceInc,
                 Conflicts, Iterations, Restarts, scores, scoreInc, phases,
                 inHeap, heapCost, maxConflict, timeout, phaseSaving>>
  /\ UNCHANGED <<status, numConflicts, conflictLimit, timedOut, result, solves, err>>
  /\ UNCHANGED <<original, blocking, recorded, queueVars, partVars>>

\* q.Clear()
QueueClear ==
  /\ pc = "idle"
  /\ queue' = Clear(queue)
  /\ pending' = <<>>
  /\ UNCHANGED <<popped, pushes, pops, grown>>
  /\ solverIdle

NextQueue == QueuePush \/ QueuePop \/ QueuePopEmpty \/ QueueClear

InitQueues ==
  /\ InitSolver /\ maxConflict < 0 /\ timeout < 0 /\ ~phaseSaving
  /\ \E capa \in QueueCapacities : InitQueue(capa)
  /\ InitParts

SpecQueue == InitQueues /\ [][NextQueue]_vars

\* ------------------------------------- the clause of package sat on its own
\* A solver that holds one clause of MaxLits literals or fewer.  Literals
\* are decided, or implied by the rest of the formula, in any order;
\* Propagate visits the clause when a watched literal becomes False; a
\* conflict makes the solver backtrack and enqueue a learnt literal, a
\* restart takes it back to the root level; at the root level Simplify
\* shortens the clause or deletes it.

besidesClauseIdle ==
  UNCHANGED <<solverVars, callVars, original, blocking, recorded, queueVars,
              orderVars, phaseVars, setVars, poolVars>>

\* Search decides literal l: assume(l).
SatAssume ==
  /\ satState = "run" /\ Len(satSolver.propQueue) = 0
  /\ decisionLevel(satSolver) < MaxLevels
  /\ \E l \in 0..(Len(satSolver.assigns) - 1) :
       /\ LitValue(satSolver, l) = Unknown
       /\ satSolver' = assume(satSolver, l)
  /\ UNCHANGED satState /\ lastCall' = NoCall
  /\ besidesClauseIdle

\* Literal l is enqueued from outside the clause: by another clause during
\* propagation, by AddClause with a unit clause at the root level, or by
\* record with the learnt clause after a conflict.
SatImply ==
  /\ \/ satState = "learn"
     \/ /\ satState = "run"
        /\ Len(satSolver.propQueue) > 0 \/ decisionLevel(satSolver) = 0
  /\ \E l \in 0..(Len(satSolver.assigns) - 1) :
       /\ LitValue(satSolver, l) = Unknown
       /\ satSolver' = enqueue(satSolver, l, NoClause).s
  /\ satState' = "run" /\ lastCall' = NoCall
  /\ besidesClauseIdle

\* Solver.Propagate takes the next literal of the queue; a conflict clears
\* the queue.
SatPropagate ==
  /\ satState = "run" /\ Len(satSolver.propQueue) > 0
  /\ LET r == satPropagateOne(satSolver) IN
       /\ satSolver' = IF r.ok THEN r.s ELSE [r.s EXCEPT !.propQueue = <<>>]
       /\ satState' = IF ~Ok(r.s) THEN "crashed"
                      ELSE IF r.ok THEN "run" ELSE "conflict"
       /\ lastCall' = IF r.called THEN CallOf(r) ELSE NoCall
  /\ besidesClauseIdle

\* A conflict, in this clause or in another one: Search backtracks to a
\* lower level, where record is about to enqueue the asserting literal of
\* the learnt clause.
SatConflict ==
  /\ satState \in {"run", "conflict"}
  /\ \E level \in 0..(decisionLevel(satSolver) - 1) :
       satSolver' = [satBacktrackTo(satSolver, level) EXCEPT !.propQueue = <<>>]
  /\ satState' = "learn"
  /\ lastCall' = NoCall
  /\ besidesClauseIdle

\* A restart: from a fixpoint Search backtracks to the root level.
SatRestart ==
  /\ satState = "run" /\ Len(satSolver.propQueue) = 0
  /\ decisionLevel(satSolver) > 0
  /\ satSolver' = satBacktrackTo(satSolver, 0)
  /\ UNCHANGED satState
  /\ lastCall' = NoCall
  /\ besidesClauseIdle

\* Solver.Simplify at the root level: Clause.Simplify drops the False
\* literals of the clause, or finds it satisfied and the clause is deleted.
SatSimplify ==
  /\ satState = "run" /\ Len(satSolver.propQueue) = 0
  /\ decisionLevel(satSolver) = 0
  /\ LET r == ClauseSimplify(satSolver, 1) IN
       /\ satSolver' = r.s
       /\ satState' = IF r.sat THEN "deleted" ELSE "run"
  /\ lastCall' = NoCall
  /\ besidesClauseIdle

NextClause ==
  SatAssume \/ SatImply \/ SatPropagate \/ SatConflict \/ SatRestart \/ SatSimplify

InitClauses ==
  /\ InitSolver /\ maxConflict < 0 /\ timeout < 0 /\ ~phaseSaving
  /\ InitQueue(1)
  /\ InitClause
  /\ rescaled = FALSE
  /\ lastValues = <<>> /\ lastDecision = [made |-> FALSE]
  /\ InitSet /\ InitPools

SpecClause == InitClauses /\ [][NextClause]_vars

\* ------------------------------------------------ VarOrder on its own
\* A solver that declares its variables first and then uses its VarOrder as
\* Search does, with no clause: scores are bumped and decayed, and rescaled at
\* RescaleAt; NextDecision gives the literal to assume; literals are
\* enqueued; backtrackTo reinserts the variables it unassigns.

besidesOrderIdle ==
  UNCHANGED <<callVars, original, blocking, recorded, queueVars, clauseVars,
              phaseVars, setVars, poolVars>>

\* s.AddVariable()
OrderAddVariable ==
  /\ pc = "idle" /\ NumVariables(Cur) < MaxVars
  /\ Len(trail) = 0 /\ scoreInc = 1 /\ \A v \in DOMAIN scores : scores[v] = 0
  /\ Becomes(AddVariableOp(Cur))
  /\ rescaled' = FALSE
  /\ besidesOrderIdle

\* analyze bumps the score of variable v.
OrderBump ==
  /\ pc = "idle"
  /\ \E v \in 0..(NumVariables(Cur) - 1) :
       /\ Becomes(BumpAndRescale(Cur, v))
       /\ rescaled' = (BumpScore(Cur, v).scores[v + 1] > RescaleAt)
  /\ besidesOrderIdle

\* Search decays the scores after a conflict.
OrderDecay ==
  /\ pc = "idle"
  /\ Becomes(DecayAndRescale(Cur))
  /\ rescaled' = (DecayScores(Cur).scoreInc > RescaleAt)
  /\ besidesOrderIdle

\* Search assumes the literal NextDecision returns.
OrderDecide ==
  /\ pc = "idle" /\ NumAssigns(Cur) # NumVariables(Cur)
  /\ Becomes([decide(NextDecision(Cur)).s EXCEPT !.propQueue = <<>>])
  /\ rescaled' = FALSE
  /\ besidesOrderIdle

\* Propagation enqueues a literal; its variable stays in the heap.
OrderEnqueue ==
  /\ pc = "idle"
  /\ \E l \in 0..(Len(assigns) - 1) :
       /\ LitValue(Cur, l) = Unknown
       /\ Becomes([enqueue(Cur, l, NoClause).s EXCEPT !.propQueue = <<>>])
  /\ rescaled' = FALSE
  /\ besidesOrderIdle

\* Search backtracks to a lower level.
OrderBacktrack ==
  /\ pc = "idle"
  /\ \E level \in 0..(decisionLevel(Cur) - 1) : Becomes(backtrackTo(Cur, level))
  /\ rescaled' = FALSE
  /\ besidesOrderIdle

NextOrder ==
  \/ OrderAddVariable \/ OrderBump \/ OrderDecay
  \/ OrderDecide \/ OrderEnqueue \/ OrderBacktrack

SpecOrder == InitNoStop /\ [][NextOrder]_vars

\* ------------------------------------------------ a ResetSet on its own

besidesSetIdle ==
  UNCHANGED <<solverVars, callVars, original, blocking, recorded, queueVars,
              clauseVars, orderVars, phaseVars, poolVars>>

\* rs.Expand()
SetExpand ==
  /\ Len(resetSet.addedAt) < MaxCapacity
  /\ resetSet' = Expand(resetSet)
  /\ UNCHANGED <<members, clears>>
  /\ besidesSetIdle

\* rs.Clear()
SetClear ==
  /\ resetSet' = ResetSetClear(resetSet)
  /\ members' = {}
  /\ clears' = IF resetSet'.addedTimestamp < resetSet.addedTimestamp \/ clears = "wrapped"
                 THEN "wrapped" ELSE "some"
  /\ besidesSetIdle

\* rs.Add(v) for v within the capacity
SetAdd ==
  /\ \E v \in 0..(Len(resetSet.addedAt) - 1) :
       /\ resetSet' = Add(resetSet, v)
       /\ members' = members \cup {v}
  /\ UNCHANGED clears
  /\ besidesSetIdle

NextSet == SetExpand \/ SetClear \/ SetAdd

SpecSet == InitNoStop /\ [][NextSet]_vars

\* ----------------------------------------------- the slice pools on their own

besidesPoolIdle ==
  UNCHANGED <<solverVars, callVars, original, blocking, recorded, queueVars,
              clauseVars, orderVars, phaseVars, setVars>>

\* allocSlice(capa): the pool hands back one of the slices it may return,
\* which leaves the pool.
PoolAlloc ==
  /\ Len(held) < MaxHeld
  /\ \E capa \in 1..MaxCapa :
       \E got \in poolGet(pools, pid(capa)) :
         /\ pools' = [pools EXCEPT ![pid(capa) + 1] = @ \ {got}]
         /\ held' = Append(held, allocSlice(capa, got))
         /\ lastAlloc' = [made |-> TRUE, capa |-> capa, cap |-> allocSlice(capa, got)]
  /\ besidesPoolIdle

\* freeSlice(s) of a slice the client holds
PoolFree ==
  /\ \E i \in 1..Len(held) :
       /\ pools' = freeSlice(pools, held[i])
       /\ held' = [j \in 1..(Len(held) - 1) |-> IF j < i THEN held[j] ELSE held[j + 1]]
  /\ lastAlloc' = [made |-> FALSE]
  /\ besidesPoolIdle

NextPool == PoolAlloc \/ PoolFree

SpecPool == InitNoStop /\ [][NextPool]_vars

\* ------------------------------------------------ the phase of decisions
\* The solver of SpecOrder with scores left alone, and what is needed to
\* tell the phase of a decision: for every variable the value it had when
\* backtrackTo last unassigned it, and the last decision.  With earlier set,
\* VarOrder is the earlier one, whose AddVar takes the initial phase as an
\* LBool, True or Unknown, and whose NextDecision treats Unknown as False.

besidesPhaseIdle ==
  UNCHANGED <<callVars, original, blocking, recorded, queueVars, clauseVars,
              orderVars, setVars, poolVars>>

\* s.AddVariable()
PhaseAddVariable(earlier) ==
  /\ pc = "idle" /\ NumVariables(Cur) < MaxVars /\ Len(trail) = 0
  /\ IF earlier
       THEN \E initPhase \in {True, Unknown} :
              Becomes(AddVarPhase(
                [AddVariableOp(Cur) EXCEPT !.scores = scores, !.phases = phases,
                                           !.inHeap = inHeap, !.heapCost = heapCost],
                initPhase))
       ELSE Becomes(AddVariableOp(Cur))
  /\ lastValues' = Append(lastValues, Unknown)
  /\ UNCHANGED lastDecision
  /\ besidesPhaseIdle

\* Search assumes the literal NextDecision returns.
PhaseDecide(earlier) ==
  /\ pc = "idle" /\ NumAssigns(Cur) # NumVariables(Cur)
  /\ LET d == IF earlier THEN NextDecisionNegative(Cur) ELSE NextDecision(Cur) IN
       /\ Becomes([decide(d).s EXCEPT !.propQueue = <<>>])
       /\ lastDecision' = [made |-> TRUE, l |-> d.l, last |-> lastValues[VarID(d.l) + 1]]
  /\ UNCHANGED lastValues
  /\ besidesPhaseIdle

\* Propagation enqueues a literal.
PhaseEnqueue ==
  /\ pc = "idle"
  /\ \E l \in 0..(Len(assigns) - 1) :
       /\ LitValue(Cur, l) = Unknown
       /\ Becomes([enqueue(Cur, l, NoClause).s EXCEPT !.propQueue = <<>>])
  /\ UNCHANGED phaseVars
  /\ besidesPhaseIdle

\* Search backtracks to a lower level: the variables above it lose their
\* values.
PhaseBacktrack ==
  /\ pc = "idle"
  /\ \E level \in 0..(decisionLevel(Cur) - 1) :
       /\ Becomes(backtrackTo(Cur, level))
       /\ lastValues' = [i \in DOMAIN lastValues |->
                           IF assignLevels[i] > level
                             THEN VarValue(Cur, i - 1) ELSE lastValues[i]]
  /\ UNCHANGED lastDecision
  /\ besidesPhaseIdle

NextPhase ==
  \/ PhaseAddVariable(FALSE) \/ PhaseDecide(FALSE)
  \/ PhaseEnqueue \/ PhaseBacktrack

NextPhaseEarlier ==
  \/ PhaseAddVariable(TRUE) \/ PhaseDecide(TRUE)
  \/ PhaseEnqueue \/ PhaseBacktrack

SpecPhase == InitNoStop /\ [][NextPhase]_vars

SpecPhaseEarlier == InitNoStop /\ [][NextPhaseEarlier]_vars

\* ------------------------------------- four variables, reductions that run
\* A learnt clause of three literals needs four variables, and a reduction
\* that deletes one needs two learnt clauses.  The count of conflicts at
\* which Search calls ReduceDB with learnt clauses at hand (2300 and more in
\* one Solve call) is out of reach of a formula of this size, so this
\* specification lets the threshold be reached at any iteration.

\* Largest number of AddVariable calls of this specification.
ReduceVars == 4

\* The clauses its client passes to AddClause, over the literals of variables
\* 0 to 3 (6 and 7 are the literals of variable 3).
ReducePool ==
  { <<1, 3, 5, 6>>, <<1, 3, 5, 7>>, <<1, 4, 6>>, <<1, 4, 7>>, <<0>> }

\* The client declares its variables before anything else.
ReduceVariable ==
  /\ pc = "idle" /\ solves = 0 /\ original = <<>>
  /\ NumVariables(Cur) < ReduceVars
  /\ Becomes(AddVariableOp(Cur))
  /\ UNCHANGED <<callVars, original, blocking, recorded, queueVars, partVars>>

\* The client calls AddClause with a clause it has not passed before.
ReduceClause ==
  /\ pc = "idle"
  /\ NumVariables(Cur) = ReduceVars
  /\ Len(original) < MaxClauses
  /\ \E clause \in ReducePool :
       /\ \A k \in 1..Len(original) : original[k] # clause
       /\ CallAddClause(clause)
       /\ original' = Append(original, clause)
  /\ UNCHANGED <<blocking, recorded, queueVars, partVars>>

\* The solver late in a run: the count of conflicts has reached the threshold
\* of the next reduction.
Due(s) ==
  [s EXCEPT !.conflictBeforeReduce = IF @ > s.Conflicts THEN s.Conflicts ELSE @]

\* One pass through the loop of Search in which the reduction is due.
SearchStepDue ==
  /\ pc = "search"
  /\ ~shouldStop(Cur, timedOut)
  /\ Iterated(searchIteration(Due(Cur), conflictLimit))
  /\ UNCHANGED <<timedOut, numConflicts, conflictLimit, result, solves, err,
                 original, blocking, queueVars, partVars>>

NextReduce ==
  \/ ReduceVariable \/ ReduceClause \/ SolveBegin
  \/ SearchStep \/ SearchStepDue \/ SolveLoop

SpecReduce == InitNoStop /\ [][NextReduce]_vars

\* ------------------------------------------------------ logic of formulas

\* The total assignments of the variables declared so far.
Assignments == [0..(NumVariables(Cur) - 1) -> BOOLEAN]

\* Assignment m makes literal l true.
Holds(m, l) == m[VarID(l)] = IsPositive(l)

\* Assignment m satisfies the clause cl, a sequence of literals.
Satisfies(m, cl) == \E i \in 1..Len(cl) : Holds(m, cl[i])

\* The assignments that satisfy every clause passed to AddClause so far.
ModelsOfOriginal ==
  {m \in Assignments : \A k \in 1..Len(original) : Satisfies(m, original[k])}

\* Solve has just returned, or the client has not called it again since.
Returned == pc = "idle" /\ solves > 0

\* Every clause passed to AddClause so far, by the client or by solveAll.
Passed == original \o blocking

\* The model m, an entry of Models, makes literal l true.
ModelHolds(m, l) == m[VarID(l) + 1] = IsPositive(l)

\* The entry m of Models as an assignment.
AsAssignment(m) == [v \in 0..(Len(m) - 1) |-> m[v + 1]]

\* The variables that have a value.
Assigned == {v \in 0..(NumVariables(Cur) - 1) : VarValue(Cur, v) # Unknown}

\* The clauses held in constraints or learnts that are not deleted.
Active == {c \in Range(constraints) \cup Range(learnts) : ~clauses[c].deleted}

\* The number of watcher entries of clause c in the watcher list of literal l.
Watching(c, l) == Cardinality({k \in 1..Len(watchers[l + 1]) : watchers[l + 1][k].clause = c})

\* ------------------------------------------------------------------ claims

\* C1: whenever Solve returns True, the last entry of Models has one value
\* per variable and makes at least one literal true in every clause that
\* was passed to AddClause.
C1_ModelSatisfiesFormula ==
  [][(pc = "ret" /\ pc' = "idle" /\ result' = True) =>
       /\ Len(Models') > 0
       /\ Len(Models'[Len(Models')]) = Len(assigns') \div 2
       /\ \A k \in 1..Len(Passed) :
            \E i \in 1..Len(Passed[k]) : ModelHolds(Models'[Len(Models')], Passed[k][i])]_vars

\* A second Solve call has returned True on a formula of at least two clauses.
C1_Witness ==
  Returned /\ result = True /\ solves = 2 /\ Len(original) >= 2 /\ Len(Models) = 2

\* C2: whenever Solve returns False, no assignment of the variables
\* satisfies all clauses passed to AddClause.
C2_FalseMeansUnsatisfiable ==
  (Returned /\ result = False) => ModelsOfOriginal = {}

\* C3: the loop "Solve; on True, AddClause the clause that negates the last
\* model" ends with Solve returning False, and Models then holds every
\* satisfying assignment of the original formula exactly once and nothing
\* else.  Until then Models holds satisfying assignments without repetition,
\* and nothing panics once the loop has started.
C3_Enumeration ==
  /\ [](/\ pc = "crashed" => solves = 0
        /\ \A i \in 1..Len(Models) : AsAssignment(Models[i]) \in ModelsOfOriginal
        /\ \A i, j \in 1..Len(Models) : Models[i] = Models[j] => i = j
        /\ (pc = "idle" /\ solves > 0 /\ result # True) =>
             /\ result = False
             /\ {AsAssignment(Models[i]) : i \in 1..Len(Models)} = ModelsOfOriginal)
  /\ <>(pc = "crashed" \/ (pc = "idle" /\ solves > 0 /\ result = False))

\* The loop has ended on a formula with two variables and no clause: four
\* models.
C3_Witness ==
  /\ pc = "idle" /\ result = False /\ Len(original) = 0
  /\ NumVariables(Cur) = 2 /\ Len(Models) = 4 /\ Len(blocking) = 4

C5_LearntsAreConsequences ==
  \A cl \in recorded : \A m \in ModelsOfOriginal : Satisfies(m, cl)

\* C6: when Solve has returned, with any status, the decision level is 0 and
\* every variable that still has a value got it at level 0.
C6_ReturnsAtRoot ==
  pc = "idle" =>
    /\ decisionLevel(Cur) = 0
    /\ \A v \in Assigned : assignLevels[v + 1] = 0

\* Solve has returned Unknown after a stop condition, with facts at the root
\* and decisions undone.
C6_Witness ==
  /\ Returned /\ result = Unknown /\ Len(trail) > 0 /\ Iterations >= 2
  /\ \E v \in 0..(NumVariables(Cur) - 1) : VarValue(Cur, v) = Unknown

\* C7: once the unsat flag is set it is never reset, and every Solve call
\* from then on returns False, appends no model and leaves the trail as it
\* is.
C7_UnsatIsFinal ==
  [][unsat =>
       /\ unsat'
       /\ Models' = Models
       /\ (pc # "idle" \/ solves' # solves) => trail' = trail
       /\ (pc = "ret" /\ pc' = "idle") => result' = False]_vars

\* A Solve call on a solver whose unsat flag was set by AddClause has
\* returned False without a conflict.
C7_Witness ==
  Returned /\ unsat /\ result = False /\ Conflicts = 0 /\ Len(trail) > 0

\* C8: between the steps of Solve the trail holds the true literal of each
\* variable that has a value exactly once, every trail literal is True, and
\* the assignment levels do not decrease along the trail.
C8_TrailInvariant ==
  pc # "crashed" =>
    /\ Len(trail) = Cardinality(Assigned)
    /\ \A i \in 1..Len(trail) : LitValue(Cur, trail[i]) = True
    /\ \A i, j \in 1..Len(trail) : VarID(trail[i]) = VarID(trail[j]) => i = j
    /\ \A i \in 1..(Len(trail) - 1) :
         assignLevels[VarID(trail[i]) + 1] <= assignLevels[VarID(trail[i + 1]) + 1]

\* The search stands two decisions deep with three literals on the trail,
\* after a conflict.
C8_Witness ==
  pc = "search" /\ Len(trailLim) = 2 /\ Len(trail) = 3 /\ Conflicts > 0

\* C9: for every literal l, assigns[l] is the opposite of
\* assigns[opposite(l)], and a variable has level -1 and a nil reason exactly
\* when both of its literals are Unknown.
C9_AssignmentDuality ==
  /\ \A l \in 0..(Len(assigns) - 1) :
       LitValue(Cur, l) = LOpposite(LitValue(Cur, Opposite(l)))
  /\ \A v \in 0..(NumVariables(Cur) - 1) :
       (assignLevels[v + 1] = -1 /\ assignReasons[v + 1] = NoClause)
         <=> (LitValue(Cur, PositiveLiteral(v)) = Unknown
              /\ LitValue(Cur, NegativeLiteral(v)) = Unknown)

\* After a conflict and the backtracking, one variable is implied by a
\* clause and another has no value.
C9_Witness ==
  /\ Conflicts > 0
  /\ \E v \in Assigned : assignReasons[v + 1] # NoClause
  /\ \E v \in 0..(NumVariables(Cur) - 1) : v \notin Assigned

\* C10: between the steps of Solve every active clause of constraints or
\* learnts has exactly one watcher entry in the list of opposite(literals[0]),
\* exactly one in the list of opposite(literals[1]), and none in any other
\* list.
C10_WatcherIntegrity ==
  pc # "crashed" =>
    \A c \in Active :
      /\ Len(clauses[c].literals) >= 2
      /\ \A l \in 0..(Len(watchers) - 1) :
           Watching(c, l) =
             IF l = Opposite(clauses[c].literals[1]) \/ l = Opposite(clauses[c].literals[2])
               THEN 1 ELSE 0

\* A learnt clause is active next to problem clauses whose watches have
\* moved during propagation.
C10_Witness ==
  /\ pc = "search" /\ Len(learnts) > 0 /\ Len(constraints) >= 2
  /\ \E c \in Range(constraints) : ~clauses[c].deleted /\ clauses[c].literals \notin Range(original)

\* The clauses that some watcher list holds an entry of.
Watched ==
  UNION {{watchers[l][k].clause : k \in 1..Len(watchers[l])} : l \in 1..Len(watchers)}

\* C11: between the steps of Solve no watcher list holds an entry whose
\* clause has been deleted.
C11_NoDeletedWatcher ==
  pc # "crashed" => \A c \in Watched : ~clauses[c].deleted

\* C12: between the steps of Solve the reason clause of every variable that
\* has one is not deleted.
C12_ReasonNotDeleted ==
  pc # "crashed" =>
    \A v \in 0..(NumVariables(Cur) - 1) :
      assignReasons[v + 1] # NoClause => ~clauses[assignReasons[v + 1]].deleted

\* The solver on which the iteration of Search that starts in solver s calls
\* ReduceDB when the reduction is due: Propagate has returned p without a
\* conflict.
AtReduce(p) ==
  raiseThreshold(IF decisionLevel(p.s) = 0 THEN Simplify(p.s) ELSE p.s)

\* ReduceDB is about to run on solver s; marked is s with learnts sorted and
\* the best tenth protected.  Every clause of s.learnts that is deleted in
\* the clause store after was not the reason of a variable, had an lbd above
\* 2, more than 2 literals and no protection when the loop examined it.
ReduceSpares(s, marked, after) ==
  \A c \in Range(s.learnts) :
    (after[c].deleted /\ ~s.clauses[c].deleted) =>
      /\ \A v \in 0..(NumVariables(s) - 1) : s.assignReasons[v + 1] # c
      /\ s.clauses[c].lbd > 2
      /\ Len(s.clauses[c].literals) > 2
      /\ ~isProtected(marked, c)

\* ReduceSpares for the iteration whose call of Propagate has returned p.
ReduceSparesAfter(p, after) ==
  (Ok(p.s) /\ p.confl = NoClause /\ Ok(AtReduce(p))) =>
    ReduceSpares(AtReduce(p), reduceMarked(AtReduce(p)), after)

LevelOf(s, l) == s.assignLevels[VarID(l) + 1]

\* analyze has returned a, with clause a.learnt and level a.backtrackLevel, on
\* a conflict at the decision level d of solver a.s: all literals are False,
\* the first is the only one of level d, the others lie below d and the
\* highest of their levels (0 without them) is the backjump level.
FirstUIP(a) ==
  Ok(a.s) =>
    /\ Len(a.learnt) >= 1
    /\ \A i \in 1..Len(a.learnt) : LitValue(a.s, a.learnt[i]) = False
    /\ LevelOf(a.s, a.learnt[1]) = decisionLevel(a.s)
    /\ \A i \in 2..Len(a.learnt) :
         /\ LevelOf(a.s, a.learnt[i]) < decisionLevel(a.s)
         /\ LevelOf(a.s, a.learnt[i]) <= a.backtrackLevel
    /\ IF Len(a.learnt) = 1 THEN a.backtrackLevel = 0
       ELSE \E i \in 2..Len(a.learnt) : LevelOf(a.s, a.learnt[i]) = a.backtrackLevel

\* FirstUIP for the iteration of Search whose call of Propagate has returned
\* p: on a conflict above level 0 the iteration calls analyze.
FirstUIPAfter(p) ==
  (Ok(p.s) /\ p.confl # NoClause /\ decisionLevel(p.s) > 0) =>
    FirstUIP(analyze(p.s, p.confl))

\* C14: for every conflict at a decision level d > 0, analyze returns a
\* clause whose literals are all False, whose first literal is the only one
\* assigned at level d, whose other literals are assigned below d, and a
\* backjump level equal to the highest level of those others (0 if none).
C14_FirstUIP ==
  pc = "search" => FirstUIPAfter(Propagate(Cur))

\* analyze has returned a clause of three literals: the last recorded clause
\* is held in learnts and its first literal has just been asserted.
C14_Witness ==
  /\ pc = "search" /\ Len(learnts) > 0 /\ Len(trailLim) > 0
  /\ clauses[learnts[Len(learnts)]].literals \in recorded
  /\ Len(clauses[learnts[Len(learnts)]].literals) = 3
  /\ assignReasons[VarID(clauses[learnts[Len(learnts)]].literals[1]) + 1]
       = learnts[Len(learnts)]

\* C15: between the steps of Solve the lbd stored in every clause held in
\* learnts is at most the number of literals the clause has now.
C15_LbdBound ==
  pc # "crashed" =>
    \A i \in 1..Len(learnts) :
      clauses[learnts[i]].lbd <= Len(clauses[learnts[i]].literals)

\* The clause cl has no literal that is True in the current state and holds
\* no literal together with its opposite.
Undecided(cl) ==
  /\ \A i \in 1..Len(cl) : LitValue(Cur, cl[i]) # True
  /\ \A i, j \in 1..Len(cl) : cl[i] # Opposite(cl[j])

\* The distinct literals of cl that are not False in the current state.
Retained(cl) == {cl[i] : i \in {k \in 1..Len(cl) : LitValue(Cur, cl[k]) # False}}

\* C16: AddClause at decision level 0, and so NewClause with learnt = false,
\* on a clause without True literal and without complementary pair never
\* fails and retains exactly the distinct literals that are not False: with
\* none retained the call reports an unsatisfiable clause, one retained
\* literal is enqueued as a fact of the root, two or more become the literals
\* of a new clause.
C16_NewClauseRetains ==
  [][(pc = "idle" /\ original' # original /\ Undecided(original'[Len(original')])) =>
       /\ crashed' = "no"
       /\ Cardinality(Retained(original'[Len(original')])) = 0 =>
            unsat' /\ clauses' = clauses /\ trail' = trail
       /\ Cardinality(Retained(original'[Len(original')])) = 1 =>
            /\ unsat' = unsat /\ clauses' = clauses
            /\ \E l \in Retained(original'[Len(original')]) :
                 trail' = Append(trail, l) /\ propQueue' = Append(propQueue, l)
       /\ Cardinality(Retained(original'[Len(original')])) >= 2 =>
            /\ unsat' = unsat /\ trail' = trail
            /\ Len(clauses') = Len(clauses) + 1
            /\ constraints' = Append(constraints, Len(clauses'))
            /\ Len(clauses'[Len(clauses')].literals)
                 = Cardinality(Retained(original'[Len(original')]))
            /\ Range(clauses'[Len(clauses')].literals)
                 = Retained(original'[Len(original')])]_vars

\* C17: a call of AddClause away from decision level 0 returns an error and
\* changes nothing of the solver; a call at decision level 0 returns nil.
C17_AddClauseAtRoot ==
  [][(pc = "idle" /\ (original' # original \/ blocking' # blocking)) =>
       IF decisionLevel(Cur) # 0
         THEN err' = "error" /\ UNCHANGED solverVars
         ELSE err' = "nil" /\ pc' = "idle"]_vars

\* C18: with MaxConflicts = M >= 0 the count of conflicts never exceeds M,
\* and a Solve call that returns with M conflicts counted returns Unknown
\* unless the last conflict proved the formula unsatisfiable; with
\* MaxConflicts = -1 a Solve call returns Unknown only when a timeout is
\* configured.
C18_MaxConflicts ==
  /\ [](maxConflict >= 0 => Conflicts <= maxConflict)
  /\ [][(pc = "ret" /\ pc' = "idle") =>
          /\ (maxConflict >= 0 /\ Conflicts = maxConflict) =>
               (result' = Unknown \/ (result' = False /\ unsat'))
          /\ (maxConflict < 0 /\ result' = Unknown) => timeout >= 0]_vars

\* With MaxConflicts = 2 a Solve call has returned Unknown after two
\* conflicts from which it learnt.
C18_Witness ==
  /\ Returned /\ maxConflict = 2 /\ Conflicts = 2 /\ result = Unknown
  /\ Cardinality(recorded) = 2


\* The elements a queue holds, from its start around the ring.
Held(q) == [i \in 1..q.size |-> q.ring[BitAnd(q.start + i - 1, q.mask) + 1]]

\* What every Push, Pop and Clear keeps: Size is the number of elements
\* pushed since the last Clear and not popped, the queue holds them in the
\* order of their Push, and Pop returns the oldest of them.
QueueIsFifo ==
  /\ [](Size(queue) = Len(pending) /\ Held(queue) = pending)
  /\ [][pops' # pops => popped' = Head(pending)]_vars

\* A Push on a full ring.
Doubling == pushes' # pushes /\ queue.size = Len(queue.ring)

\* After a doubling the ring is twice as long, the old elements sit in FIFO
\* order from index 0 followed by the new element, start is 0 and mask is
\* the capacity less one.
Doubled ==
  /\ Len(queue'.ring) = 2 * Len(queue.ring)
  /\ SubSeq(queue'.ring, 1, queue'.size) = Append(pending, pushes')
  /\ queue'.start = 0
  /\ queue'.mask = Len(queue'.ring) - 1

\* C19 as stated: for any sequence of Push, Pop and Clear, Pop returns the
\* elements in the order they were pushed since the last Clear and Size is
\* the number of elements held, also when the ring wraps around and when a
\* Push on a full ring doubles it; after such a doubling the old elements
\* sit in FIFO order from index 0 followed by the new element, with
\* start = 0, end = size and mask = capacity - 1.
C19_QueueAsStated ==
  /\ QueueIsFifo
  /\ [][Doubling => (Doubled /\ queue'.end = queue'.size)]_vars

\* C19, amended: as stated, except that after a doubling end is size modulo
\* the new capacity: end = size unless a ring of one slot has doubled to two,
\* where the ring is full again and end has wrapped to 0.
C19_QueueFifo ==
  /\ QueueIsFifo
  /\ [][Doubling => (Doubled /\ queue'.end = queue'.size % Len(queue'.ring))]_vars

\* A full ring of four slots that started at index 2 has been doubled with
\* a rotation, and the next Pop has returned its oldest element.
C19_Witness ==
  /\ grown = "rotated" /\ popped = 3 /\ pending = <<4, 5, 6, 7>>
  /\ queue.ring = <<3, 4, 5, 6, 7, 0, 0, 0>> /\ queue.start = 1


\* C20: outside a running Propagate call every literal waiting in the
\* propagation queue is on the trail with value True, in trail order: the
\* queue is a suffix of the trail.  In particular no literal that a
\* backtrackTo has unassigned remains queued, also after the backtrackTo(0)
\* that ends a Solve stopped by a stop condition.
C20_QueueIsTrailSuffix ==
  pc # "crashed" =>
    /\ Len(propQueue) <= Len(trail)
    /\ propQueue = SubSeq(trail, Len(trail) - Len(propQueue) + 1, Len(trail))
    /\ \A i \in 1..Len(propQueue) : LitValue(Cur, propQueue[i]) = True


\* The active clauses of solver s.
ActiveIn(s) == {c \in Range(s.constraints) \cup Range(s.learnts) : ~s.clauses[c].deleted}

\* The positions of clause c whose literal has value b in solver s.
Valued(s, c, b) ==
  {i \in 1..Len(s.clauses[c].literals) : LitValue(s, s.clauses[c].literals[i]) = b}

\* Solver s is at a fixpoint of unit propagation.
Propagated(s) ==
  /\ Len(s.propQueue) = 0
  /\ \A c \in ActiveIn(s) :
       \/ Valued(s, c, True) # {}
       \/ Cardinality(Valued(s, c, Unknown)) >= 2

\* Propagate has returned p with a nil clause: the solver is at a fixpoint.
PropagatedAfter(p) == (Ok(p.s) /\ p.confl = NoClause) => Propagated(p.s)

\* C21: when Propagate returns nil, the queue is empty and every active
\* clause has a True literal or at least two literals that are not False.
\* Search calls Propagate at the top of every iteration it enters.
C21_PropagateFixpoint ==
  (pc = "search" /\ ~shouldStop(Cur, timedOut)) => PropagatedAfter(Propagate(Cur))

\* Propagate has implied a literal at decision level 1 and returned nil,
\* and Search has taken its second decision.
C21_Witness ==
  /\ pc = "search" /\ Len(trailLim) = 2 /\ Len(propQueue) = 1
  /\ \E v \in Assigned : assignLevels[v + 1] = 1 /\ assignReasons[v + 1] # NoClause


\* The last n elements of seq.
Suffix(seq, n) == SubSeq(seq, Len(seq) - n + 1, Len(seq))

\* Propagate has returned p with a conflicting clause.
ConflictAfter(p) ==
  (Ok(p.s) /\ p.confl # NoClause) =>
    /\ Valued(p.s, p.confl, False) = 1..Len(p.s.clauses[p.confl].literals)
    /\ Len(p.s.propQueue) = 0
    /\ Len(p.rest) <= Len(p.s.watchers[p.l + 1])
    /\ Suffix(p.s.watchers[p.l + 1], Len(p.rest)) = p.rest

\* C22: when Propagate returns a clause, every literal of that clause is
\* False, the propagation queue has been emptied, and every watcher of the
\* literal being processed that had not yet been visited is back in the
\* watcher list of that literal.
C22_ConflictIsFalse ==
  (pc = "search" /\ ~shouldStop(Cur, timedOut)) => ConflictAfter(Propagate(Cur))


\* The position of literal l on the trail, 0 when it is not there.
TrailIndex(l) ==
  IF \E k \in 1..Len(trail) : trail[k] = l
    THEN CHOOSE k \in 1..Len(trail) : trail[k] = l
    ELSE 0

\* Clause c is the reason of variable v as explainAssign reads it: its first
\* literal is the true literal of v, and every other literal is False and
\* stands on the trail before it.
Implies(c, v) ==
  /\ c \in Active
  /\ Len(clauses[c].literals) >= 1
  /\ VarID(clauses[c].literals[1]) = v
  /\ LitValue(Cur, clauses[c].literals[1]) = True
  /\ \A i \in 2..Len(clauses[c].literals) :
       /\ LitValue(Cur, clauses[c].literals[i]) = False
       /\ TrailIndex(Opposite(clauses[c].literals[i])) > 0
       /\ TrailIndex(Opposite(clauses[c].literals[i])) < TrailIndex(clauses[c].literals[1])

\* C23: in every state between operations, for every variable v assigned at
\* a decision level above 0 with a reason clause c that is not nil, c is
\* active, c.literals[0] is the true literal of v, and every other literal
\* of c is False and was placed on the trail before v.
C23_ReasonImplies ==
  pc # "crashed" =>
    \A v \in Assigned :
      (assignLevels[v + 1] > 0 /\ assignReasons[v + 1] # NoClause)
        => Implies(assignReasons[v + 1], v)

\* After a conflict a variable above the root has a learnt clause as its
\* reason while a clause of three literals is active.
C23_Witness ==
  /\ pc = "search" /\ Conflicts > 0
  /\ \E v \in Assigned :
       /\ assignLevels[v + 1] > 0
       /\ assignReasons[v + 1] \in Range(learnts)
  /\ \E c \in Active : Len(clauses[c].literals) = 3


\* Solver s after record of the clause and lbd that analyze returned in a:
\* the clause is the last of learnts, holds the literals analyze returned
\* with the asserting literal first, and carries the lbd; its first literal
\* is True at the backjump level with the clause as reason, its second is
\* False at the backjump level, the others are False at that level or below.
Asserts(a, s) ==
  /\ Ok(s)
  /\ decisionLevel(s) = a.backtrackLevel
  /\ Len(s.learnts) = Len(a.s.learnts) + 1
  /\ LET c == At(s.learnts, Len(s.learnts) - 1)
         lits == s.clauses[c].literals
     IN /\ ~s.clauses[c].deleted /\ s.clauses[c].learnt
        /\ Len(lits) = Len(a.learnt) /\ Range(lits) = Range(a.learnt)
        /\ s.clauses[c].lbd = a.lbd
        /\ At(lits, 0) = At(a.learnt, 0)
        /\ LitValue(s, At(lits, 0)) = True
        /\ LevelOf(s, At(lits, 0)) = a.backtrackLevel
        /\ s.assignReasons[VarID(At(lits, 0)) + 1] = c
        /\ LitValue(s, At(lits, 1)) = False
        /\ LevelOf(s, At(lits, 1)) = a.backtrackLevel
        /\ \A i \in 2..(Len(lits) - 1) :
             /\ LitValue(s, At(lits, i)) = False
             /\ LevelOf(s, At(lits, i)) <= a.backtrackLevel

\* analyze has returned a: Search backtracks and records.
AssertsAfterAnalyze(a) ==
  (Ok(a.s) /\ Len(a.learnt) >= 2) =>
    Asserts(a, record(backtrackTo(a.s, a.backtrackLevel), a.learnt, a.lbd))

\* Propagate has returned p: on a conflict above level 0 Search analyzes.
AssertsAfter(p) ==
  (Ok(p.s) /\ p.confl # NoClause /\ decisionLevel(p.s) > 0) =>
    AssertsAfterAnalyze(analyze([p.s EXCEPT !.Conflicts = @ + 1], p.confl))

\* C24: after a conflict at a level d > 0, backtrackTo(b) with the backjump
\* level b followed by record of a learnt clause with at least 2 literals
\* leaves literals[0] True at level b with the new clause as its reason,
\* literals[1] False and assigned at level exactly b (the highest level
\* among the other literals), all remaining literals False, and the clause
\* appended to learnts with the given lbd.
C24_RecordAsserts ==
  (pc = "search" /\ ~shouldStop(Cur, timedOut)) => AssertsAfter(Propagate(Cur))

\* A learnt clause of three literals has just been recorded at decision
\* level 2: NewClause has moved the literal of level 2 to position 1, before
\* the literal of level 1.
C24_Witness ==
  /\ pc = "search" /\ Len(learnts) > 0 /\ Len(trailLim) = 2
  /\ Len(clauses[learnts[Len(learnts)]].literals) = 3
  /\ clauses[learnts[Len(learnts)]].literals \notin recorded
  /\ assignReasons[VarID(clauses[learnts[Len(learnts)]].literals[1]) + 1]
       = learnts[Len(learnts)]
  /\ assignLevels[VarID(clauses[learnts[Len(learnts)]].literals[2]) + 1] = 2
  /\ assignLevels[VarID(clauses[learnts[Len(learnts)]].literals[3]) + 1] = 1


\* Solver s after record of the clause that analyze returned in a with
\* backjump level 0: no clause object was made, learnts is as it was, and
\* the literal is True at level 0 without a reason.
AssertsUnit(a, s) ==
  /\ Ok(s)
  /\ decisionLevel(s) = 0
  /\ Len(s.clauses) = Len(a.s.clauses)
  /\ s.learnts = a.s.learnts
  /\ LitValue(s, At(a.learnt, 0)) = True
  /\ LevelOf(s, At(a.learnt, 0)) = 0
  /\ s.assignReasons[VarID(At(a.learnt, 0)) + 1] = NoClause

\* analyze has returned a: with backjump level 0 the clause is a unit that
\* Search records at the root.
UnitAfterAnalyze(a) ==
  (Ok(a.s) /\ a.backtrackLevel = 0) =>
    /\ Len(a.learnt) = 1
    /\ AssertsUnit(a, record(backtrackTo(a.s, 0), a.learnt, a.lbd))

\* Propagate has returned p: on a conflict above level 0 Search analyzes.
UnitAfter(p) ==
  (Ok(p.s) /\ p.confl # NoClause /\ decisionLevel(p.s) > 0) =>
    UnitAfterAnalyze(analyze([p.s EXCEPT !.Conflicts = @ + 1], p.confl))

\* C25: whenever analyze returns backjump level 0, the learnt clause has
\* exactly one literal, so record creates no clause and asserts that literal
\* as a root-level fact with a nil reason.
C25_RootUnit ==
  (pc = "search" /\ ~shouldStop(Cur, timedOut)) => UnitAfter(Propagate(Cur))

\* A learnt unit has just been asserted at the root: it is the last literal
\* of the trail, waits in the queue, and no clause was made for it.
C25_Witness ==
  /\ pc = "search" /\ Len(trailLim) = 0 /\ Conflicts > 0 /\ Len(trail) > 0
  /\ <<trail[Len(trail)]>> \in recorded
  /\ propQueue = <<trail[Len(trail)]>>
  /\ assignReasons[VarID(trail[Len(trail)]) + 1] = NoClause
  /\ learnts = <<>>


\* C26: whenever the decision level is above 0, no active clause, original
\* or learnt, contains a literal whose variable is assigned at level 0:
\* every root-level assignment is propagated and simplified away before the
\* next decision is taken.
C26_NoRootLiteral ==
  (pc # "crashed" /\ Len(trailLim) > 0) =>
    \A c \in Active : \A i \in 1..Len(clauses[c].literals) :
      assignLevels[VarID(clauses[c].literals[i]) + 1] # 0

\* The search stands above the root with an active problem clause that
\* Simplify has shortened: a clause passed to AddClause, less the literal
\* that a unit clause passed later made False at the root.
C26_Witness ==
  /\ pc = "search" /\ Len(trailLim) > 0
  /\ \E c \in Active : \E k, j \in 1..Len(original) :
       /\ k < j /\ Len(original[j]) = 1
       /\ assignLevels[VarID(original[j][1]) + 1] = 0
       /\ Opposite(original[j][1]) \in Range(original[k])
       /\ Opposite(original[j][1]) \notin Range(clauses[c].literals)
       /\ Range(clauses[c].literals) \cup {Opposite(original[j][1])} = Range(original[k])


\* The clauses held in the slices constraints and learnts of solver s.
InSlices(s) == Range(s.constraints) \cup Range(s.learnts)

\* Simplify has turned solver s0 into solver s and returned true.
Simplified(s0, s) ==
  /\ Ok(s)
  /\ InSlices(s) \subseteq InSlices(s0)
  /\ \A c \in InSlices(s) :
       /\ ~s.clauses[c].deleted
       /\ Len(s.clauses[c].literals) >= 2
       /\ Valued(s, c, Unknown) = 1..Len(s.clauses[c].literals)
       /\ At(s.clauses[c].literals, 0) = At(s0.clauses[c].literals, 0)
       /\ At(s.clauses[c].literals, 1) = At(s0.clauses[c].literals, 1)
  /\ \A c \in InSlices(s0) :
       Valued(s0, c, True) # {} => (c \notin InSlices(s) /\ s.clauses[c].deleted)

\* Propagate has returned p to Search: without a conflict at the root,
\* Search calls Simplify, which returns true unless the unsat flag is set.
SimplifiedAfter(p) ==
  (Ok(p.s) /\ p.confl = NoClause /\ decisionLevel(p.s) = 0 /\ ~p.s.unsat) =>
    Simplified(p.s, Simplify(p.s))

\* C27: after Solver.Simplify returns true at decision level 0, every clause
\* left in constraints and learnts has at least 2 literals, none of them
\* assigned, and has the same literals at positions 0 and 1 as before the
\* call; every clause that had a True literal has been removed and deleted.
C27_SimplifyResult ==
  (pc = "search" /\ ~shouldStop(Cur, timedOut)) => SimplifiedAfter(Propagate(Cur))

\* The search has just left the root, where Simplify ran: the unit clause
\* was passed last, a problem clause that it satisfies has been deleted, and
\* the problem clauses still held have two literals, fewer than they were
\* passed with.
C27_Witness ==
  /\ pc = "search" /\ Len(trailLim) = 1 /\ Len(propQueue) = 1
  /\ Len(trail) = trailLim[1] + 1 /\ solves = 1
  /\ Len(original) = 4 /\ Len(original[4]) = 1
  /\ \E c \in 1..Len(clauses) : clauses[c].deleted /\ ~clauses[c].learnt
  /\ Cardinality(Active) = 2
  /\ \A c \in Active :
       /\ Len(clauses[c].literals) = 2
       /\ \E k \in 1..Len(original) :
            /\ Len(original[k]) = 3
            /\ Range(clauses[c].literals) \subseteq Range(original[k])


\* C28: in every state outside a running Propagate call, for every watcher
\* entry of an active clause the guard is one of the current literals of the
\* clause and differs from the clause literal whose opposite the entry is
\* filed under, also after Clause.Propagate has moved a watch and after
\* Simplify has dropped literals.
C28_GuardInClause ==
  pc # "crashed" =>
    \A w \in 0..(Len(watchers) - 1) : \A k \in 1..Len(watchers[w + 1]) :
      watchers[w + 1][k].clause \in Active =>
        /\ watchers[w + 1][k].guard \in Range(clauses[watchers[w + 1][k].clause].literals)
        /\ watchers[w + 1][k].guard # Opposite(w)


\* Solver s with an empty log of the guards found True.
Logging(s) == [guards |-> <<>>] @@ s

\* Every skip of the log of solver s passed over a clause that had a True
\* literal.
GuardsSound(s) ==
  \A k \in 1..Len(s.guards) : \E i \in 1..Len(s.guards[k].values) :
    s.guards[k].values[i] = True

\* C29: whenever Propagate finds a watcher whose guard is True, the clause
\* of the watcher contains a True literal, so skipping that clause never
\* skips a clause that is unit or conflicting.
C29_GuardMeansSatisfied ==
  (pc = "search" /\ ~shouldStop(Cur, timedOut)) => GuardsSound(Propagate(Logging(Cur)).s)

\* Search is about to propagate one queued literal, and that call of
\* Propagate finds a watcher whose guard is True.
C29_Witness ==
  /\ pc = "search" /\ Len(propQueue) = 1 /\ ~shouldStop(Cur, timedOut)
  /\ Len(Propagate(Logging(Cur)).s.guards) > 0

\* Two outcomes of Propagate agree: both panic or neither does, both report
\* a conflict or both return nil, and when both return nil the same
\* literals are assigned.
SameOutcome(g, n) ==
  /\ Ok(g.s) <=> Ok(n.s)
  /\ (Ok(g.s) /\ Ok(n.s)) =>
       /\ (g.confl = NoClause) <=> (n.confl = NoClause)
       /\ g.confl = NoClause =>
            /\ Range(g.s.trail) = Range(n.s.trail)
            /\ g.s.assigns = n.s.assigns

\* C30: whenever Search calls Propagate, the call with the guard test and
\* the earlier Propagate without it, started from that same solver, either
\* both report a conflict or both return nil with the same set of assigned
\* literals.
C30_GuardIsOptimisation ==
  (pc = "search" /\ ~shouldStop(Cur, timedOut)) =>
    SameOutcome(Propagate(Cur), PropagateNoGuard(Cur))

\* Both return nil, and the guard test has skipped a clause that the
\* earlier Propagate loads and rearranges: the literal order of some clause
\* differs afterwards.
DifferentOrder(g, n) ==
  /\ Ok(g.s) /\ Ok(n.s)
  /\ g.confl = NoClause /\ n.confl = NoClause
  /\ g.s.clauses # n.s.clauses

\* Search is about to propagate a decision; the call assigns a further
\* literal, and the call with the guard test skips a clause that the call
\* without it rearranges.
C30_Witness ==
  /\ pc = "search" /\ ~shouldStop(Cur, timedOut)
  /\ Len(trailLim) > 0 /\ Len(propQueue) = 1
  /\ Len(Propagate(Cur).s.trail) > Len(trail)
  /\ DifferentOrder(Propagate(Cur), PropagateNoGuard(Cur))

\* The literals of the clause when the last call of Clause.Propagate began.
CallLits == lastCall.before.clauses[1].literals

\* The watched literal that is not the opposite of the propagated one.
OtherWatch ==
  IF At(CallLits, 0) = Opposite(lastCall.l) THEN At(CallLits, 1) ELSE At(CallLits, 0)

\* Some literal at a position from 2 on was not False when the call began.
SomeNotFalse ==
  \E i \in 2..(Len(CallLits) - 1) : LitValue(lastCall.before, At(CallLits, i)) # False

\* The watch moved: the two watched literals are not the two of before.
Moved(s) ==
  {At(s.clauses[1].literals, 0), At(s.clauses[1].literals, 1)}
    # {At(CallLits, 0), At(CallLits, 1)}

\* The last call agrees with the linear scan: the same boolean, the same
\* assignment afterwards, the watch moved by both or by neither.
AsLinear ==
  /\ Ok(lastCall.after) /\ Ok(lastCall.linear.s)
  /\ lastCall.ok = lastCall.linear.ok
  /\ lastCall.after.assigns = lastCall.linear.s.assigns
  /\ lastCall.after.trail = lastCall.linear.s.trail
  /\ Moved(lastCall.after) <=> Moved(lastCall.linear.s)

\* The scan examined positions from 2 on, none of them twice, and a moved
\* watch leaves prevPos at the position of the literal it took.
ScannedOnce ==
  /\ \A i \in 1..Len(lastCall.seen) : lastCall.seen[i] \in 2..(Len(CallLits) - 1)
  /\ \A i, j \in 1..Len(lastCall.seen) : i # j => lastCall.seen[i] # lastCall.seen[j]
  /\ Moved(lastCall.after) =>
       /\ lastCall.after.clauses[1].prevPos \in 2..(Len(CallLits) - 1)
       /\ lastCall.after.clauses[1].prevPos = lastCall.seen[Len(lastCall.seen)]
       /\ LitValue(lastCall.before, At(CallLits, lastCall.seen[Len(lastCall.seen)])) # False
       /\ At(lastCall.after.clauses[1].literals, 1)
            = At(CallLits, lastCall.seen[Len(lastCall.seen)])

\* C31 as stated: Clause.Propagate with prevPos returns what the linear scan
\* returns, examines no position twice, and moves the watch exactly when
\* some literal at a position from 2 on is not False.
C31_PrevPosAsStated ==
  lastCall.called =>
    /\ AsLinear /\ ScannedOnce
    /\ Moved(lastCall.after) <=> SomeNotFalse

\* C31: Clause.Propagate with prevPos returns what the linear scan returns,
\* examines no position twice, and moves the watch exactly when the other
\* watched literal is not True and some literal at a position from 2 on is
\* not False; also on a clause that Simplify has shortened.
C31_PrevPosAsLinear ==
  lastCall.called =>
    /\ AsLinear /\ ScannedOnce
    /\ Moved(lastCall.after) <=>
         (LitValue(lastCall.before, OtherWatch) # True /\ SomeNotFalse)

\* Simplify has shortened the clause below its prevPos, and the call of
\* Clause.Propagate that followed moved the watch after a scan that began
\* again at position 2.
C31_Witness ==
  /\ lastCall.called
  /\ lastCall.before.clauses[1].prevPos >= Len(CallLits)
  /\ Len(CallLits) > 2
  /\ Moved(lastCall.after)

\* The variables of solver s that have no value.
Unassigned(s) == {v \in 0..(NumVariables(s) - 1) : VarValue(s, v) = Unknown}

\* The solver when Search, Propagate having returned nil on solver s, comes
\* to its test for a model: after Simplify at the root level and ReduceDB
\* when it is due.
AtModelTest(s) ==
  reduceWhenDue(IF decisionLevel(s) = 0 THEN Simplify(s) ELSE s)

\* Search calls NextDecision on solver s.
AsksDecision(s, limit) ==
  Ok(s) /\ NumAssigns(s) # NumVariables(s) /\ s.Conflicts <= limit

\* On solver s, at the test for a model: saveModel is called only with
\* every variable assigned, and NextDecision only with a variable
\* unassigned and every unassigned variable in the heap.
HeapReady(s, limit) ==
  /\ (Ok(s) /\ NumAssigns(s) = NumVariables(s)) => Unassigned(s) = {}
  /\ AsksDecision(s, limit) =>
       /\ Unassigned(s) # {}
       /\ \A v \in Unassigned(s) : s.inHeap[v + 1]

\* HeapReady for the iteration of Search whose call of Propagate has
\* returned p.
HeapReadyAfter(p, limit) ==
  (Ok(p.s) /\ p.confl = NoClause) => HeapReady(AtModelTest(p.s), limit)

\* C32: whenever Search asks NextDecision for a literal, a variable is
\* unassigned and every unassigned variable is in the order heap; whenever
\* saveModel runs, every variable is assigned; neither "empty heap" nor
\* "not a model" ever ends the program.
C32_HeapNeverEmpty ==
  /\ crashed \notin {"empty heap", "not a model"}
  /\ (pc = "search" /\ ~shouldStop(Cur, timedOut)) =>
       HeapReadyAfter(Propagate(Cur), conflictLimit)

\* NextDecision pops a variable that has a value before it finds one that
\* has none.
PopsAssigned(s, limit) ==
  /\ AsksDecision(s, limit)
  /\ heapMin(s) >= 0 /\ VarValue(s, heapMin(s)) # Unknown

\* Search is about to ask for a decision above the root level, and the
\* heap holds a variable that was assigned by propagation.
C32_Witness ==
  /\ pc = "search" /\ ~shouldStop(Cur, timedOut) /\ Len(trailLim) > 0
  /\ Ok(Propagate(Cur).s) /\ Propagate(Cur).confl = NoClause
  /\ PopsAssigned(AtModelTest(Propagate(Cur).s), conflictLimit)

\* The key of every variable in the heap is minus its score.
KeysAreScores(s) ==
  \A v \in 0..(NumVariables(s) - 1) :
    s.inHeap[v + 1] => s.heapCost[v + 1] = 0 - s.scores[v + 1]

\* Literal l is a literal of an unassigned variable of solver s whose score
\* is maximal among the unassigned ones, and of the lowest such variable.
BestUnassigned(s, l) ==
  /\ VarID(l) \in Unassigned(s)
  /\ \A w \in Unassigned(s) :
       \/ s.scores[w + 1] < s.scores[VarID(l) + 1]
       \/ s.scores[w + 1] = s.scores[VarID(l) + 1] /\ VarID(l) <= w

\* What NextDecision returns on solver s is the best unassigned variable.
DecisionIsBest(s) ==
  Unassigned(s) # {} =>
    /\ Ok(NextDecision(s).s)
    /\ BestUnassigned(s, NextDecision(s).l)

\* C33: NextDecision returns a literal of an unassigned variable whose
\* score is maximal among the unassigned variables, the lowest variable
\* among equal scores; the key of every variable in the heap is minus its
\* score, also after BumpScore, Reinsert and a rescaling.
C33_DecisionIsBest ==
  pc = "idle" => (KeysAreScores(Cur) /\ DecisionIsBest(Cur))

\* The last operation rescaled the scores; two unassigned variables have
\* different scores, and the heap still holds an assigned variable whose
\* score is higher than theirs.
C33_Witness ==
  /\ pc = "idle" /\ rescaled
  /\ \E v, w \in Unassigned(Cur) : scores[v + 1] < scores[w + 1]
  /\ \E u \in 0..(NumVariables(Cur) - 1) :
       /\ u \notin Unassigned(Cur) /\ inHeap[u + 1]
       /\ \A w \in Unassigned(Cur) : scores[w + 1] < scores[u + 1]

\* C34: the literal NextDecision returns is positive when its variable has
\* never been assigned; with phase saving it has the value the variable had
\* when it was last unassigned; without phase saving it is positive.
C34_PhaseOfDecision ==
  lastDecision.made =>
    /\ lastDecision.last = Unknown => IsPositive(lastDecision.l)
    /\ (phaseSaving /\ lastDecision.last # Unknown) =>
         IsPositive(lastDecision.l) = (lastDecision.last = True)
    /\ ~phaseSaving => IsPositive(lastDecision.l)

\* The variables of solver s that have a value given at level t or below.
KeptBy(s, t) ==
  {v \in 0..(NumVariables(s) - 1) :
     VarValue(s, v) # Unknown /\ s.assignLevels[v + 1] <= t}

\* Solver r is solver s after backtrackTo(t).
Backtracked(s, t, r) ==
  IF t >= decisionLevel(s) THEN r = s
  ELSE
    /\ Ok(r) /\ decisionLevel(r) = t
    /\ r.trailLim = Prefix(s.trailLim, t)
    /\ Len(r.trail) = Cardinality(KeptBy(s, t))
    /\ r.trail = Prefix(s.trail, Len(r.trail))
    /\ \A v \in 0..(NumVariables(s) - 1) :
         IF v \in KeptBy(s, t)
           THEN /\ VarValue(r, v) = VarValue(s, v)
                /\ LitValue(r, NegativeLiteral(v)) = LitValue(s, NegativeLiteral(v))
                /\ r.assignLevels[v + 1] = s.assignLevels[v + 1]
                /\ r.assignReasons[v + 1] = s.assignReasons[v + 1]
                /\ \E i \in 1..Len(r.trail) : VarID(r.trail[i]) = v
           ELSE /\ VarValue(r, v) = Unknown
                /\ LitValue(r, NegativeLiteral(v)) = Unknown
                /\ r.assignLevels[v + 1] = -1
                /\ r.assignReasons[v + 1] = NoClause
                /\ r.inHeap[v + 1]
    /\ r.clauses = s.clauses /\ r.constraints = s.constraints
    /\ r.learnts = s.learnts

\* analyze has returned a: Search backtracks to the backjump level.
BacktrackedAfterAnalyze(a) ==
  Ok(a.s) => Backtracked(a.s, a.backtrackLevel, backtrackTo(a.s, a.backtrackLevel))

\* Propagate has returned p: on a conflict above level 0 Search analyzes.
BacktrackedAfter(p) ==
  (Ok(p.s) /\ p.confl # NoClause /\ decisionLevel(p.s) > 0) =>
    BacktrackedAfterAnalyze(analyze([p.s EXCEPT !.Conflicts = @ + 1], p.confl))

\* C35: backtrackTo(t) with t below the decision level leaves the decision
\* level at t; the variables assigned at a level <= t keep value, level,
\* reason and trail position; every other variable is Unknown with level -1
\* and a nil reason and is in the order heap; clauses and learnts are as
\* they were; with t at or above the decision level nothing changes.
\* It is checked for every level on the solver between the steps of Solve,
\* and for the backjump that follows a conflict.
C35_BacktrackFrame ==
  /\ pc \in {"idle", "search"} =>
       \A t \in 0..(decisionLevel(Cur) + 1) : Backtracked(Cur, t, backtrackTo(Cur, t))
  /\ (pc = "search" /\ ~shouldStop(Cur, timedOut)) => BacktrackedAfter(Propagate(Cur))

\* The search stands two decisions deep after a conflict, with a literal
\* implied by a clause at level 1 or below and the decision of level 2 on
\* the trail: backtrackTo(1) keeps the first and unassigns the second.
C35_Witness ==
  /\ pc = "search" /\ Len(trailLim) = 2 /\ Conflicts > 0
  /\ \E v, w \in Assigned :
       /\ assignLevels[v + 1] <= 1 /\ assignReasons[v + 1] # NoClause
       /\ assignLevels[w + 1] = 2
  /\ Len(backtrackTo(Cur, 1).trail) < Len(trail)

\* The comparison of ReduceDB is a strict order on the learnt clauses of
\* solver s.
StrictOrder(s) ==
  LET L == Range(s.learnts) IN
  /\ \A c \in L : ~less(s, c, c)
  /\ \A c, d \in L : ~(less(s, c, d) /\ less(s, d, c))
  /\ \A c, d, e \in L : (less(s, c, d) /\ less(s, d, e)) => less(s, c, e)

\* Search has reached its test for the reduction on solver s: when the
\* reduction is due, ReduceDB sorts the learnts of s.
StrictOrderWhenDue(s) ==
  (Ok(s) /\ s.Conflicts >= s.conflictBeforeReduce) => StrictOrder(s)

\* Propagate has returned p with a nil clause: Search simplifies at the root
\* level and reaches the test for the reduction.
StrictOrderAfter(p) ==
  (Ok(p.s) /\ p.confl = NoClause) =>
    StrictOrderWhenDue(IF decisionLevel(p.s) = 0 THEN Simplify(p.s) ELSE p.s)

\* C36: the comparison ReduceDB sorts learnts with is irreflexive,
\* asymmetric and transitive on the learnt clauses it is called with: of no
\* two clauses does it report each as coming before the other.
C36_StrictOrder ==
  (pc = "search" /\ ~shouldStop(Cur, timedOut)) => StrictOrderAfter(Propagate(Cur))

\* C37: ReduceDB is run only once the count of conflicts has reached the
\* initial threshold, so no reduction happens in a Solve with fewer
\* conflicts.  Search raises conflictBeforeReduce exactly when it runs
\* ReduceDB; the threshold asked for here is the increment NewSolver sets,
\* 2000, which is below the 20000 of the statement.
C37_NoEarlyReduce ==
  [][(pc = "search" /\ pc' # "crashed" /\ conflictBeforeReduce' # conflictBeforeReduce) =>
       Conflicts' >= conflictBeforeReduceInc0]_vars

\* C38: once Clear has been called, Contains(v) is true exactly of the
\* elements added since the last Clear: it is false of every v within the
\* capacity right after a Clear, also after the Clear that wraps the
\* timestamp and for the slots Expand adds later, and true of v from Add(v)
\* until the next Clear.
C38_SetAfterClear ==
  clears # "none" =>
    \A v \in 0..(Len(resetSet.addedAt) - 1) : Contains(resetSet, v) <=> v \in members

\* The timestamp has wrapped and restarted at 1, and since that Clear an
\* element has been added while another slot has not.
C38_Witness ==
  /\ clears = "wrapped" /\ Len(resetSet.addedAt) = MaxCapacity
  /\ members # {} /\ members # 0..(MaxCapacity - 1)
  /\ resetSet.addedTimestamp = 1

\* C40: allocSlice(capa) with capa >= 1 returns an empty slice of capacity
\* at least capa, whichever slice the pool hands back.  (Every slice of the
\* pools is empty: New makes it so and freeSlice resets the length.)
C40_AllocCapacity == lastAlloc.made => lastAlloc.cap >= lastAlloc.capa

\* Propagate has returned p with a conflict that Search analyzes: the
\* decision level is below the number of variables, and so is the level of
\* every variable that has one.
LevelsInRange(p) ==
  (Ok(p.s) /\ p.confl # NoClause /\ decisionLevel(p.s) > 0) =>
    /\ decisionLevel(p.s) < NumVariables(p.s)
    /\ \A v \in 0..(NumVariables(p.s) - 1) : p.s.assignLevels[v + 1] < NumVariables(p.s)

\* C39: every decision level that computeLBD marks or looks up in seenLevel
\* is below NumVariables, the capacity of seenLevel: computeLBD never ends
\* the program with an index out of range, and no conflict is analysed at a
\* decision level equal to NumVariables.
C39_LevelsInRange ==
  /\ crashed # "computeLBD: index out of range"
  /\ (pc = "search" /\ ~shouldStop(Cur, timedOut)) => LevelsInRange(Propagate(Cur))

\* Propagate has returned p with a conflict at the highest level there can
\* be, one below the number of variables: every variable but one is a
\* decision.
AnalysedAtTop(p) ==
  /\ Ok(p.s) /\ p.confl # NoClause
  /\ decisionLevel(p.s) >= 2 /\ decisionLevel(p.s) = NumVariables(p.s) - 1

\* Search is about to analyze a conflict at decision level NumVariables - 1.
C39_Witness ==
  pc = "search" /\ ~shouldStop(Cur, timedOut) /\ AnalysedAtTop(Propagate(Cur))

====
